---- MODULE Spec2Model ----
(***************************************************************************)
(* ColdHarbor trade journal: the Firestore-backed record store             *)
(* (FirebaseStorage), the document normalizer (convertFirestoreData) and   *)
(* the Express route handlers that call them.  Every await of the source   *)
(* is a point where another handler may run, so each storage method is a   *)
(* sequence of steps on a per-caller frame.                                *)
(***************************************************************************)
EXTENDS Integers, Sequences, FiniteSets, TLC

VARIABLES
    counterDoc,     \* the document system/counters
    users,          \* Firestore collection 'users':       key -> data
    trades,         \* Firestore collection 'trades':      key -> data
    collections,    \* Firestore collection 'collections': key -> data
    initPc,         \* initializeCounters() of each storage instance
    proc,           \* the frame of each caller (a request handler or a direct call)
    session,        \* express-session / passport: the user id a client's session holds
    ncalls,         \* calls and requests started so far
    workload,       \* the storage methods or routes the callers of this behaviour use
    issued,         \* history: the values getNextId returned, per counter, in commit order
    returned,       \* history: the ids of the records create calls returned, in return order
    deletedTrue,    \* history: per collection, the keys for which a delete call returned
                    \* true, each with the number of ids issued by then
    fresh           \* history: per collection, key -> the record create returned for
                    \* it, while no update or delete of that key has taken effect

vars == <<counterDoc, users, trades, collections, initPc, proc, session,
          ncalls, workload, issued, returned, deletedTrue, fresh>>

-----------------------------------------------------------------------------
(* Bounds of the model. *)

\* direct storage calls started in one behaviour
MaxCalls == 3

\* HTTP requests received in one behaviour
MaxRequests == 2

\* the callers, interchangeable: a call starts on the first idle one
ProcOrder == <<"p1", "p2">>
Procs == {ProcOrder[i] : i \in DOMAIN ProcOrder}
Instances == {"i1", "i2"}
Clients == {"c1", "c2"}

-----------------------------------------------------------------------------
(* JavaScript values.  A value carries its type, so that null, numbers,    *)
(* strings, Firestore Timestamps and Dates stay distinct.                  *)

Null == [t |-> "null"]
Undefined == [t |-> "undefined"]
NaN == [t |-> "NaN"]
Num(n) == [t |-> "number", v |-> n]
Str(s) == [t |-> "string", v |-> s]
Timestamp(x) == [t |-> "Timestamp", v |-> x]
Date(x) == [t |-> "Date", v |-> x]
\* a string held as the sequence of its characters, for String.includes
Text(cs) == [t |-> "text", v |-> cs]

\* JavaScript truthiness, as used by `a || b` and `a && b`
Truthy(x) ==
    CASE x.t = "null" -> FALSE
      [] x.t = "undefined" -> FALSE
      [] x.t = "NaN" -> FALSE
      [] x.t = "number" -> x.v # 0
      [] x.t = "string" -> x.v # ""
      [] x.t = "text" -> x.v # <<>>
      [] OTHER -> TRUE

\* a || b
OrElse(a, b) == IF Truthy(a) THEN a ELSE b

\* An object: a function from field names to values.
EmptyObj == [f \in {} |-> Null]

\* obj.f, undefined when the object has no such field
Field(obj, f) == IF f \in DOMAIN obj THEN obj[f] ELSE Undefined

\* { ...a, ...b }: b's fields override a's
Spread(a, b) ==
    [f \in DOMAIN a \cup DOMAIN b |-> IF f \in DOMAIN b THEN b[f] ELSE a[f]]

-----------------------------------------------------------------------------
(* Document keys are strings; a string is the sequence of its characters.  *)

DigitChar == <<"0", "1", "2", "3", "4", "5", "6", "7", "8", "9">>

IsDigit(c) == \E i \in DOMAIN DigitChar : DigitChar[i] = c

DigitVal(c) == (CHOOSE i \in DOMAIN DigitChar : DigitChar[i] = c) - 1

\* Number.prototype.toString() of a non-negative integer
RECURSIVE NumToString(_)
NumToString(n) ==
    IF n < 10 THEN <<DigitChar[n + 1]>>
    ELSE Append(NumToString(n \div 10), DigitChar[(n % 10) + 1])

RECURSIVE DigitsValue(_)
DigitsValue(s) ==
    IF s = <<>> THEN 0
    ELSE 10 * DigitsValue(SubSeq(s, 1, Len(s) - 1)) + DigitVal(s[Len(s)])

\* Number(s) for a string of digits and letters other than e, x, o, b (no
\* sign, point, exponent, radix prefix or blank): the decimal value when every
\* character is a digit (0 for the empty string), NaN otherwise.
NumberOf(s) ==
    IF \A i \in DOMAIN s : IsDigit(s[i]) THEN Num(DigitsValue(s)) ELSE NaN

\* s < t in the order Firestore sorts document names by (byte-wise)
CharRank(c) ==
    IF IsDigit(c) THEN DigitVal(c) ELSE 10

RECURSIVE KeyLess(_, _)
KeyLess(s, t) ==
    IF t = <<>> THEN FALSE
    ELSE IF s = <<>> THEN TRUE
    ELSE IF CharRank(Head(s)) # CharRank(Head(t))
         THEN CharRank(Head(s)) < CharRank(Head(t))
    ELSE KeyLess(Tail(s), Tail(t))

\* the keys of K in Firestore's order
RECURSIVE SortedKeys(_)
SortedKeys(K) ==
    IF K = {} THEN <<>>
    ELSE LET m == CHOOSE k \in K : \A o \in K \ {k} : KeyLess(k, o)
         IN  <<m>> \o SortedKeys(K \ {m})

-----------------------------------------------------------------------------
(* Firestore.  A collection is a function from keys to document data; a    *)
(* write stores a Date as a Timestamp.                                     *)

USERS_COLLECTION == "users"
TRADES_COLLECTION == "trades"
COLLECTIONS_COLLECTION == "collections"

CollectionNames == {USERS_COLLECTION, TRADES_COLLECTION, COLLECTIONS_COLLECTION}
CounterNames == {"userId", "tradeId", "collectionId"}

Coll(c) ==
    CASE c = USERS_COLLECTION -> users
      [] c = TRADES_COLLECTION -> trades
      [] c = COLLECTIONS_COLLECTION -> collections

\* the collection c becomes d, the other two stay
SetColl(c, d) ==
    /\ users' = IF c = USERS_COLLECTION THEN d ELSE users
    /\ trades' = IF c = TRADES_COLLECTION THEN d ELSE trades
    /\ collections' = IF c = COLLECTIONS_COLLECTION THEN d ELSE collections

Encode(data) ==
    [f \in DOMAIN data |->
        IF data[f].t = "Date" THEN Timestamp(data[f].v) ELSE data[f]]

\* collection(c).doc(key).get()
Snapshot(c, key) ==
    IF key \in DOMAIN Coll(c)
    THEN [exists |-> TRUE, id |-> key, data |-> Coll(c)[key]]
    ELSE [exists |-> FALSE, id |-> key, data |-> EmptyObj]

\* doc(key).set(data): the document becomes exactly data
DocSet(coll, key, data) ==
    [k \in DOMAIN coll \cup {key} |-> IF k = key THEN Encode(data) ELSE coll[k]]

\* (mutant: the document is replaced by the listed fields)
DocUpdateReplaces(coll, key, data) ==
    [k \in DOMAIN coll |-> IF k = key THEN Encode(data) ELSE coll[k]]

\* doc(key).update(data) on a stored document: the listed fields are replaced
DocUpdate(coll, key, data) ==
    [k \in DOMAIN coll |->
        IF k = key THEN Spread(coll[k], Encode(data)) ELSE coll[k]]

\* (mutant: nothing is removed)
DocDeleteKeeps(coll, key) == coll

\* doc(key).delete()
DocDelete(coll, key) ==
    [k \in DOMAIN coll \ {key} |-> coll[k]]

\* collection(c).where(field, '==', value).get(): the matching documents in
\* the order of their keys
QueryDocs(c, field, value) ==
    LET hit == {k \in DOMAIN Coll(c) : Field(Coll(c)[k], field) = value}
        ks == SortedKeys(hit)
    IN  [i \in DOMAIN ks |-> Snapshot(c, ks[i])]

-----------------------------------------------------------------------------
(* firebase.ts: the normalizer.                                            *)

\* a thrown error, as a result
Throw(msg) == [t |-> "throw", v |-> msg]
IsThrow(x) == "t" \in DOMAIN x /\ x.t = "throw"

\* a key kept as the record's id (a string value, held as its characters)
StrOfKey(key) == [t |-> "string", chars |-> key]

\* (mutant: the key is kept as a string whatever it holds)
IdOfKeyKeepsString(key) == StrOfKey(key)

\* let id = doc.id; if (!isNaN(Number(id))) id = Number(id)
IdOfKey(key) ==
    IF NumberOf(key) # NaN THEN NumberOf(key) ELSE StrOfKey(key)

TimeFields == {"createdAt", "entryDate", "exitDate"}

\* data.f.toDate() is callable
HasToDate(x) == x.t = "Timestamp"

\* (mutant: the time fields are left as stored)
NormalizedKeepsTimestamps(key, data) ==
    [f \in DOMAIN data \cup {"id"} |-> IF f = "id" THEN IdOfKey(key) ELSE data[f]]

\* (mutant: an id field of the payload replaces the id taken from the key)
NormalizedPayloadWins(key, data) ==
    LET timed == {f \in TimeFields : Truthy(Field(data, f))}
    IN  IF \E f \in timed : ~HasToDate(data[f])
        THEN Throw("TypeError")
        ELSE [f \in DOMAIN data \cup {"id"} |->
                IF f = "id" /\ "id" \notin DOMAIN data THEN IdOfKey(key)
                ELSE IF f \in timed THEN Date(data[f].v)
                ELSE data[f]]

\* { ...data, id, ...(data.createdAt && { createdAt: data.createdAt.toDate() }), ... }
Normalized(key, data) ==
    LET timed == {f \in TimeFields : Truthy(Field(data, f))}
    IN  IF \E f \in timed : ~HasToDate(data[f])
        THEN Throw("TypeError")
        ELSE [f \in DOMAIN data \cup {"id"} |->
                IF f = "id" THEN IdOfKey(key)
                ELSE IF f \in timed THEN Date(data[f].v)
                ELSE data[f]]

convertFirestoreData(doc) ==
    IF ~doc.exists THEN Null ELSE Normalized(doc.id, doc.data)

\* some document's conversion throws, which makes the whole call throw
CollectionThrows(docs) ==
    \E i \in DOMAIN docs : IsThrow(Normalized(docs[i].id, docs[i].data))

\* the result is a sequence of records, empty for an empty snapshot
convertFirestoreCollection(docs) ==
    [i \in DOMAIN docs |-> Normalized(docs[i].id, docs[i].data)]

-----------------------------------------------------------------------------
(* Frames.  A caller is idle, or inside one storage method (op, pc) called *)
(* either directly or by a route handler (route, rpc).                     *)

NoRet == [t |-> "none"]
Val(x) == [t |-> "value", v |-> x]
Err(msg) == [t |-> "error", v |-> msg]
Bool(b) == [t |-> "boolean", v |-> b]
List(xs) == [t |-> "list", v |-> xs]

Idle ==
    [route |-> "none", rpc |-> "idle", client |-> "none", user |-> Null,
     param |-> <<>>, body |-> EmptyObj, status |-> 0, sent |-> NoRet,
     op |-> "none", pc |-> "idle", coll |-> "none", id |-> 0,
     data |-> EmptyObj, cur |-> 0, ver |-> 0, att |-> 0, undisturbed |-> TRUE,
     ret |-> NoRet]

\* a direct call of a storage method
Call(op, pc, coll, id, data) ==
    [Idle EXCEPT !.route = "direct", !.op = op, !.pc = pc, !.coll = coll,
                 !.id = id, !.data = data]

\* (mutant: every kind takes its identifiers from the user counter)
CounterOfShared(c) == "userId"

CounterOf(c) ==
    CASE c = USERS_COLLECTION -> "userId"
      [] c = TRADES_COLLECTION -> "tradeId"
      [] c = COLLECTIONS_COLLECTION -> "collectionId"

StoreUnchanged == UNCHANGED <<counterDoc, users, trades, collections>>
HistoryUnchanged == UNCHANGED <<issued, returned, deletedTrue, fresh>>
CallsUnchanged == UNCHANGED <<initPc, session, ncalls, workload>>

-----------------------------------------------------------------------------
(* FirebaseStorage: constructor and initializeCounters.                    *)

NoCounterDoc ==
    [exists |-> FALSE, updateTime |-> 0, userId |-> 0, tradeId |-> 0, collectionId |-> 0]

\* const countersDoc = await this.counterRef.get()
InitializeCountersGet(i) ==
    /\ initPc[i] = "get"
    /\ initPc' = [initPc EXCEPT ![i] = IF counterDoc.exists THEN "done" ELSE "set"]
    /\ UNCHANGED <<counterDoc, users, trades, collections, proc, session, ncalls,
                   workload, issued, returned, deletedTrue, fresh>>

\* await this.counterRef.set({ userId: 1, tradeId: 1, collectionId: 1 })
InitializeCountersSet(i) ==
    /\ initPc[i] = "set"
    /\ counterDoc' = [exists |-> TRUE, updateTime |-> counterDoc.updateTime + 1,
                      userId |-> 1, tradeId |-> 1, collectionId |-> 1]
    /\ initPc' = [initPc EXCEPT ![i] = "done"]
    /\ UNCHANGED <<users, trades, collections, proc, session, ncalls,
                   workload, issued, returned, deletedTrue, fresh>>

-----------------------------------------------------------------------------
(* FirebaseStorage.getNextId: one Firestore transaction.  The commit       *)
(* succeeds only if the counter document is as the transaction read it;    *)
(* otherwise runTransaction runs the update function again.                *)

\* counterDoc.data()?.[counterName] || 1
CurrentValue(name) ==
    IF counterDoc.exists THEN OrElse(Num(counterDoc[name]), Num(1)).v ELSE 1

\* (mutant: the counter is written back as read)
NextValueSame(currentValue) == currentValue

\* the value the transaction writes back
NextValue(currentValue) == currentValue + 1

\* (mutant: the read and the write of the counter are not one transaction)
TxnNeverConflicts(p) == TRUE

\* the document has not been written since the transaction read it
TxnUnchanged(p) == counterDoc.updateTime = proc[p].ver

\* const counterDoc = await transaction.get(this.counterRef)
GetNextIdRead(p) ==
    /\ proc[p].pc = "getNextId:get"
    /\ proc' = [proc EXCEPT ![p].cur = CurrentValue(CounterOf(proc[p].coll)),
                            ![p].ver = counterDoc.updateTime,
                            ![p].att = @ + 1,
                            ![p].pc = "getNextId:commit"]
    /\ StoreUnchanged /\ HistoryUnchanged
    /\ CallsUnchanged

\* transaction.update(...) and the commit: retried on contention, rejected
\* when there is no counter document to update
GetNextIdCommit(p) ==
    /\ proc[p].pc = "getNextId:commit"
    /\ LET name == CounterOf(proc[p].coll) IN
       IF ~TxnUnchanged(p)
       THEN /\ proc' = [proc EXCEPT ![p].pc = "getNextId:get"]
            /\ UNCHANGED <<counterDoc, issued>>
       ELSE IF ~counterDoc.exists
       THEN /\ proc' = [proc EXCEPT ![p].ret = Err("NOT_FOUND"), ![p].pc = "return"]
            /\ UNCHANGED <<counterDoc, issued>>
       ELSE /\ counterDoc' = [counterDoc EXCEPT ![name] = NextValue(proc[p].cur),
                                                !.updateTime = @ + 1]
            /\ issued' = [issued EXCEPT ![name] = Append(@, proc[p].cur)]
            /\ proc' = [proc EXCEPT ![p].id = proc[p].cur, ![p].pc = "set"]
    /\ CallsUnchanged
    /\ UNCHANGED <<users, trades, collections, returned, deletedTrue, fresh>>

-----------------------------------------------------------------------------
(* FirebaseStorage.createUser / createTrade / createCollection.            *)

\* new Date()
Now == Date("now")

\* (mutant: the caller's fields are spread last and override the defaults)
UserRecordCallerWins(insertUser, id) ==
    Spread([id |-> Num(id), createdAt |-> Now,
            stripeCustomerId |-> Null, stripeSubscriptionId |-> Null,
            planType |-> Str("free"),
            avatar |-> OrElse(Field(insertUser, "avatar"), Null)],
           insertUser)

UserRecord(insertUser, id) ==
    Spread(insertUser,
           [id |-> Num(id), createdAt |-> Now,
            stripeCustomerId |-> Null, stripeSubscriptionId |-> Null,
            planType |-> Str("free"),
            avatar |-> OrElse(Field(insertUser, "avatar"), Null)])

TradeRecord(insertTrade, id) ==
    Spread(insertTrade,
           [id |-> Num(id), createdAt |-> Now,
            notes |-> OrElse(Field(insertTrade, "notes"), Null),
            collectionId |-> OrElse(Field(insertTrade, "collectionId"), Null)])

CollectionRecord(insertCollection, id) ==
    Spread(insertCollection,
           [id |-> Num(id), createdAt |-> Now,
            description |-> OrElse(Field(insertCollection, "description"), Null)])

NewRecord(c, insert, id) ==
    CASE c = USERS_COLLECTION -> UserRecord(insert, id)
      [] c = TRADES_COLLECTION -> TradeRecord(insert, id)
      [] c = COLLECTIONS_COLLECTION -> CollectionRecord(insert, id)

\* history: the record create returned for key
Noted(recs, key, rec) ==
    [k \in DOMAIN recs \cup {key} |-> IF k = key THEN rec ELSE recs[k]]

\* history: key has been updated or deleted
Touched(recs, key) == [k \in DOMAIN recs \ {key} |-> recs[k]]

\* await this.db.collection(c).doc(id.toString()).set(record); return record
CreateSet(p) ==
    /\ proc[p].pc = "set"
    /\ LET c == proc[p].coll
           rec == NewRecord(c, proc[p].data, proc[p].id)
       IN  /\ SetColl(c, DocSet(Coll(c), NumToString(proc[p].id), rec))
           /\ proc' = [proc EXCEPT ![p].ret = Val(rec), ![p].pc = "return"]
           /\ returned' = [returned EXCEPT ![c] = Append(@, rec["id"])]
           /\ fresh' = [fresh EXCEPT ![c] = Noted(@, NumToString(proc[p].id), rec)]
    /\ CallsUnchanged
    /\ UNCHANGED <<counterDoc, issued, deletedTrue>>

-----------------------------------------------------------------------------
(* FirebaseStorage: the read methods.  Each is one await.                  *)

\* `x || undefined` of a conversion's result; a throw rejects the call
OrUndefined(x) ==
    IF IsThrow(x) THEN Err(x.v) ELSE IF x = Null THEN Undefined ELSE Val(x)

\* getTrade, getCollection:
\* convertFirestoreData(await collection(c).doc(id.toString()).get()) || undefined
GetDoc(p) ==
    /\ proc[p].pc = "get"
    /\ proc' = [proc EXCEPT
                  ![p].ret = OrUndefined(convertFirestoreData(
                                 Snapshot(proc[p].coll, NumToString(proc[p].id)))),
                  ![p].pc = "return"]
    /\ StoreUnchanged /\ HistoryUnchanged
    /\ CallsUnchanged

\* the where clause of a frame: its one field and the value asked for
WhereField(p) == CHOOSE f \in DOMAIN proc[p].data : TRUE
WhereValue(p) == proc[p].data[WhereField(p)]

\* getUser, getUserByUsername, getUserByEmail:
\* where(field, '==', value).limit(1).get(); empty -> undefined;
\* else convertFirestoreData(query.docs[0]) || undefined
QueryFirst(p) ==
    /\ proc[p].pc = "queryFirst"
    /\ LET docs == QueryDocs(proc[p].coll, WhereField(p), WhereValue(p)) IN
       proc' = [proc EXCEPT
                  ![p].ret = IF docs = <<>> THEN Undefined
                             ELSE OrUndefined(convertFirestoreData(docs[1])),
                  ![p].pc = "return"]
    /\ StoreUnchanged /\ HistoryUnchanged
    /\ CallsUnchanged

\* getUserTrades, getCollectionTrades, getUserCollections:
\* convertFirestoreCollection(await where(field, '==', value).get())
QueryAll(p) ==
    /\ proc[p].pc = "queryAll"
    /\ LET docs == QueryDocs(proc[p].coll, WhereField(p), WhereValue(p)) IN
       proc' = [proc EXCEPT
                  ![p].ret = IF CollectionThrows(docs) THEN Err("TypeError")
                             ELSE List(convertFirestoreCollection(docs)),
                  ![p].pc = "return"]
    /\ StoreUnchanged /\ HistoryUnchanged
    /\ CallsUnchanged

-----------------------------------------------------------------------------
(* FirebaseStorage: updateTrade, updateCollection, updateUserPlan,         *)
(* updateUserStripeInfo.  Three awaits: the existence check, the write,    *)
(* the re-read.                                                            *)

NotFoundMessage(c) ==
    CASE c = USERS_COLLECTION -> "User not found"
      [] c = TRADES_COLLECTION -> "Trade not found"
      [] c = COLLECTIONS_COLLECTION -> "Collection not found"

FailedMessage(c) ==
    CASE c = USERS_COLLECTION -> "Failed to update user"
      [] c = TRADES_COLLECTION -> "Failed to update trade"
      [] c = COLLECTIONS_COLLECTION -> "Failed to update collection"

\* History kept in the frames: an update that has written and not yet re-read
\* is undisturbed until another caller writes or deletes the same document.
AfterWriteBy(p, q) ==
    IF /\ q # p
       /\ proc[q].pc = "update:reget"
       /\ proc[q].coll = proc[p].coll
       /\ proc[q].id = proc[p].id
    THEN [proc[q] EXCEPT !.undisturbed = FALSE]
    ELSE proc[q]

\* (mutant: the update goes on to write without looking for the document)
UpdateCheckSkipped(p) ==
    /\ proc[p].pc = "update:get"
    /\ proc' = [proc EXCEPT ![p].pc = "update:update"]
    /\ StoreUnchanged /\ HistoryUnchanged
    /\ CallsUnchanged

\* const doc = await ref.get(); if (!doc.exists) throw new Error("... not found")
UpdateCheck(p) ==
    /\ proc[p].pc = "update:get"
    /\ proc' = IF Snapshot(proc[p].coll, NumToString(proc[p].id)).exists
               THEN [proc EXCEPT ![p].pc = "update:update"]
               ELSE [proc EXCEPT ![p].ret = Err(NotFoundMessage(proc[p].coll)),
                                 ![p].pc = "return"]
    /\ StoreUnchanged /\ HistoryUnchanged
    /\ CallsUnchanged

\* await ref.update(data): Firestore rejects an update of a missing document
UpdateWrite(p) ==
    /\ proc[p].pc = "update:update"
    /\ LET c == proc[p].coll
           key == NumToString(proc[p].id)
       IN  IF key \in DOMAIN Coll(c)
           THEN /\ SetColl(c, DocUpdate(Coll(c), key, proc[p].data))
                /\ proc' = [q \in Procs |->
                              IF q = p THEN [proc[p] EXCEPT !.pc = "update:reget",
                                                            !.undisturbed = TRUE]
                              ELSE AfterWriteBy(p, q)]
                /\ fresh' = [fresh EXCEPT ![c] = Touched(@, key)]
           ELSE /\ UNCHANGED <<users, trades, collections, fresh>>
                /\ proc' = [proc EXCEPT ![p].ret = Err("NOT_FOUND"),
                                        ![p].pc = "return"]
    /\ CallsUnchanged
    /\ UNCHANGED <<counterDoc, issued, returned, deletedTrue>>

\* (mutant: the result of the re-read is returned even when nothing is found)
UpdateRereadUnguarded(p) ==
    /\ proc[p].pc = "update:reget"
    /\ LET r == convertFirestoreData(Snapshot(proc[p].coll, NumToString(proc[p].id))) IN
       proc' = [proc EXCEPT
                  ![p].ret = IF IsThrow(r) THEN Err(r.v) ELSE Val(r),
                  ![p].undisturbed = TRUE,
                  ![p].pc = "return"]
    /\ StoreUnchanged /\ HistoryUnchanged
    /\ CallsUnchanged

\* const updated = convertFirestoreData(await ref.get());
\* if (!updated) throw new Error("Failed to update ..."); return updated
UpdateReread(p) ==
    /\ proc[p].pc = "update:reget"
    /\ LET r == convertFirestoreData(Snapshot(proc[p].coll, NumToString(proc[p].id))) IN
       proc' = [proc EXCEPT
                  ![p].ret = IF IsThrow(r) THEN Err(r.v)
                             ELSE IF r = Null THEN Err(FailedMessage(proc[p].coll))
                             ELSE Val(r),
                  ![p].undisturbed = TRUE,
                  ![p].pc = "return"]
    /\ StoreUnchanged /\ HistoryUnchanged
    /\ CallsUnchanged

-----------------------------------------------------------------------------
(* FirebaseStorage: deleteTrade, deleteCollection.  Two awaits.            *)

\* const doc = await ref.get(); if (!doc.exists) return false
DeleteCheck(p) ==
    /\ proc[p].pc = "delete:get"
    /\ proc' = IF Snapshot(proc[p].coll, NumToString(proc[p].id)).exists
               THEN [proc EXCEPT ![p].pc = "delete:delete"]
               ELSE [proc EXCEPT ![p].ret = Bool(FALSE), ![p].pc = "return"]
    /\ StoreUnchanged /\ HistoryUnchanged
    /\ CallsUnchanged

\* await ref.delete(); return true
DeleteWrite(p) ==
    /\ proc[p].pc = "delete:delete"
    /\ LET c == proc[p].coll
           key == NumToString(proc[p].id)
       IN  /\ SetColl(c, DocDelete(Coll(c), key))
           /\ deletedTrue' = [deletedTrue EXCEPT ![c] =
                  @ \cup {[key |-> key, at |-> Len(issued[CounterOf(c)])]}]
           /\ fresh' = [fresh EXCEPT ![c] = Touched(@, key)]
    /\ proc' = [q \in Procs |->
                  IF q = p THEN [proc[p] EXCEPT !.ret = Bool(TRUE), !.pc = "return"]
                  ELSE AfterWriteBy(p, q)]
    /\ CallsUnchanged
    /\ UNCHANGED <<counterDoc, issued, returned>>

-----------------------------------------------------------------------------
(* Direct calls of the storage methods, with arguments from small sets.    *)

InsertUsers ==
    { [username |-> Str("alice"), email |-> Str("a@x.com"), password |-> Str("h1")],
      [username |-> Str("alice"), email |-> Str("b@x.com"), password |-> Str("h2"),
       avatar |-> Str("pic"), planType |-> Str("pro"),
       stripeCustomerId |-> Str("cus_0")] }

InsertTrades ==
    { [userId |-> Num(1), symbol |-> Str("AAPL")],
      [userId |-> Num(2), symbol |-> Str("MSFT"), notes |-> Str("n"),
       collectionId |-> Num(1)] }

InsertCollections ==
    { [userId |-> Num(1), name |-> Str("swing")],
      [userId |-> Num(2), name |-> Str("scalp"), description |-> Str("d")] }

\* Partial<InsertTrade>
TradeUpdates ==
    { [notes |-> Str("x")], [notes |-> Str("y"), symbol |-> Str("TSLA")] }

\* Partial<InsertCollection>
CollectionUpdates ==
    { [name |-> Str("y"), description |-> Str("e")] }

PlanTypes == {"pro"}

StripeInfos ==
    { [customerId |-> "cus_1", subscriptionId |-> "sub_1"] }

\* the identifiers calls are addressed to
IdArgs == {1, 2}

\* a caller is free before its first call and once a direct call has
\* returned; the frame keeps the result until the caller's next call
IsIdle(p) ==
    \/ proc[p].rpc = "idle" /\ proc[p].pc = "idle"
    \/ proc[p].route = "direct" /\ proc[p].pc = "return"
    \/ proc[p].rpc = "responded"

\* callers are taken in order: p is the first idle one
FirstIdle(p) ==
    /\ IsIdle(p)
    /\ \A i, j \in DOMAIN ProcOrder :
          (i < j /\ ProcOrder[j] = p) => ~IsIdle(ProcOrder[i])

CanCall(p) == FirstIdle(p) /\ ncalls < MaxCalls

Start(p, frame) ==
    /\ CanCall(p)
    /\ frame.op \in workload
    /\ proc' = [proc EXCEPT ![p] = frame]
    /\ ncalls' = ncalls + 1
    /\ StoreUnchanged /\ HistoryUnchanged
    /\ UNCHANGED <<initPc, session, workload>>

createUser(p) ==
    \E u \in InsertUsers :
        Start(p, Call("createUser", "getNextId:get", USERS_COLLECTION, 0, u))

createTrade(p) ==
    \E t \in InsertTrades :
        Start(p, Call("createTrade", "getNextId:get", TRADES_COLLECTION, 0, t))

createCollection(p) ==
    \E c \in InsertCollections :
        Start(p, Call("createCollection", "getNextId:get", COLLECTIONS_COLLECTION, 0, c))

getUser(p) ==
    \E id \in IdArgs :
        Start(p, Call("getUser", "queryFirst", USERS_COLLECTION, id, [id |-> Num(id)]))

getUserByUsername(p) ==
    \E u \in InsertUsers :
        Start(p, Call("getUserByUsername", "queryFirst", USERS_COLLECTION, 0,
                      [username |-> u.username]))

getUserByEmail(p) ==
    \E u \in InsertUsers :
        Start(p, Call("getUserByEmail", "queryFirst", USERS_COLLECTION, 0,
                      [email |-> u.email]))

getTrade(p) ==
    \E id \in IdArgs :
        Start(p, Call("getTrade", "get", TRADES_COLLECTION, id, EmptyObj))

getCollection(p) ==
    \E id \in IdArgs :
        Start(p, Call("getCollection", "get", COLLECTIONS_COLLECTION, id, EmptyObj))

getUserTrades(p) ==
    \E id \in IdArgs :
        Start(p, Call("getUserTrades", "queryAll", TRADES_COLLECTION, id,
                      [userId |-> Num(id)]))

getCollectionTrades(p) ==
    \E id \in IdArgs :
        Start(p, Call("getCollectionTrades", "queryAll", TRADES_COLLECTION, id,
                      [collectionId |-> Num(id)]))

getUserCollections(p) ==
    \E id \in IdArgs :
        Start(p, Call("getUserCollections", "queryAll", COLLECTIONS_COLLECTION, id,
                      [userId |-> Num(id)]))

\* const updatedData = { stripeCustomerId: ..., stripeSubscriptionId: ... }
StripeUpdate(stripeInfo) ==
    [stripeCustomerId |-> Str(stripeInfo.customerId),
     stripeSubscriptionId |-> Str(stripeInfo.subscriptionId)]

\* (mutant: the write also names the avatar)
PlanUpdateAlsoAvatar(planType) ==
    [planType |-> Str(planType), avatar |-> Str("default.png")]

\* { planType }
PlanUpdate(planType) == [planType |-> Str(planType)]

updateUserStripeInfo(p) ==
    \E id \in IdArgs, info \in StripeInfos :
        Start(p, Call("updateUserStripeInfo", "update:get", USERS_COLLECTION, id,
                      StripeUpdate(info)))

updateUserPlan(p) ==
    \E id \in IdArgs, plan \in PlanTypes :
        Start(p, Call("updateUserPlan", "update:get", USERS_COLLECTION, id,
                      PlanUpdate(plan)))

updateTrade(p) ==
    \E id \in IdArgs, u \in TradeUpdates :
        Start(p, Call("updateTrade", "update:get", TRADES_COLLECTION, id, u))

updateCollection(p) ==
    \E id \in IdArgs, u \in CollectionUpdates :
        Start(p, Call("updateCollection", "update:get", COLLECTIONS_COLLECTION, id, u))

deleteTrade(p) ==
    \E id \in IdArgs :
        Start(p, Call("deleteTrade", "delete:get", TRADES_COLLECTION, id, EmptyObj))

deleteCollection(p) ==
    \E id \in IdArgs :
        Start(p, Call("deleteCollection", "delete:get", COLLECTIONS_COLLECTION, id, EmptyObj))

-----------------------------------------------------------------------------
(* The store on a fresh database: the module's one FirebaseStorage has     *)
(* just been constructed, its initializeCounters() is pending.             *)

\* The callers of one behaviour use the methods of one collection, or the
\* two create methods whose transactions contend for the one counter document
\* from different collections.
Workloads ==
    { {"createUser", "getUser", "getUserByUsername", "getUserByEmail",
       "updateUserStripeInfo", "updateUserPlan"},
      {"createTrade", "getTrade", "getUserTrades", "getCollectionTrades",
       "updateTrade", "deleteTrade"},
      {"createCollection", "getCollection", "getUserCollections",
       "updateCollection", "deleteCollection"},
      {"createTrade", "createCollection"} }

NoHistory ==
    /\ issued = [n \in CounterNames |-> <<>>]
    /\ returned = [c \in CollectionNames |-> <<>>]
    /\ deletedTrue = [c \in CollectionNames |-> {}]
    /\ fresh = [c \in CollectionNames |-> <<>>]

Init ==
    /\ counterDoc = NoCounterDoc
    /\ users = <<>>
    /\ trades = <<>>
    /\ collections = <<>>
    /\ initPc = [i \in Instances |-> IF i = "i1" THEN "get" ELSE "off"]
    /\ proc = [p \in Procs |-> Idle]
    /\ session = [c \in Clients |-> Null]
    /\ ncalls = 0
    /\ workload \in Workloads
    /\ NoHistory

StorageStep(p) ==
    \/ GetNextIdRead(p)
    \/ GetNextIdCommit(p)
    \/ CreateSet(p)
    \/ GetDoc(p)
    \/ QueryFirst(p)
    \/ QueryAll(p)
    \/ UpdateCheck(p)
    \/ UpdateWrite(p)
    \/ UpdateReread(p)
    \/ DeleteCheck(p)
    \/ DeleteWrite(p)

Next ==
    \/ \E i \in Instances : InitializeCountersGet(i) \/ InitializeCountersSet(i)
    \/ \E p \in Procs :
        \/ createUser(p) \/ createTrade(p) \/ createCollection(p)
        \/ getUser(p) \/ getUserByUsername(p) \/ getUserByEmail(p)
        \/ getTrade(p) \/ getCollection(p)
        \/ getUserTrades(p) \/ getCollectionTrades(p) \/ getUserCollections(p)
        \/ updateUserStripeInfo(p) \/ updateUserPlan(p)
        \/ updateTrade(p) \/ updateCollection(p)
        \/ deleteTrade(p) \/ deleteCollection(p)
        \/ StorageStep(p)

Spec == Init /\ [][Next]_vars

-----------------------------------------------------------------------------
(* routes.ts.  A handler runs from one await to the next in one step; the  *)
(* storage method it awaits runs on the handler's frame.                   *)

\* res.status(status).json(payload): the handler is done
Respond(frame, status, payload) ==
    [frame EXCEPT !.rpc = "responded", !.status = status, !.sent = payload,
                  !.op = "none", !.pc = "idle", !.coll = "none", !.id = 0,
                  !.data = EmptyObj, !.cur = 0, !.ver = 0, !.att = 0,
                  !.undisturbed = TRUE, !.ret = NoRet]

\* await storage.<op>(...) at the handler position rpc
Await(frame, rpc, op, pc, coll, id, data) ==
    [frame EXCEPT !.rpc = rpc, !.op = op, !.pc = pc, !.coll = coll, !.id = id,
                  !.data = data, !.cur = 0, !.ver = 0, !.att = 0,
                  !.undisturbed = TRUE, !.ret = NoRet]

\* the storage method awaited at rpc has settled
Settled(p, rpc) == proc[p].rpc = rpc /\ proc[p].pc = "return"

\* catch (error) { res.status(500).json({ message: error.message }) }
Failed(p) == proc[p].ret.t = "error"
Caught(p) == Respond(proc[p], 500, Str(proc[p].ret.v))

HandlerStep(p, frame) ==
    /\ proc' = [proc EXCEPT ![p] = frame]
    /\ StoreUnchanged /\ HistoryUnchanged /\ CallsUnchanged

\* parseInt(req.params.id), for a path parameter made of digits
ParseInt(s) == DigitsValue(s)

\* the path parameters requests carry
Params == {<<"1">>, <<"2">>}

\* A request arrives.  passport.session() sets req.user through
\* deserializeUser -> storage.getUser(id) when the session holds a user id;
\* without one req.user stays unset.
Receive(p, route, client, param, body) ==
    /\ FirstIdle(p)
    /\ ncalls < MaxRequests
    /\ route \in workload
    /\ LET req == [Idle EXCEPT !.route = route, !.client = client,
                               !.param = param, !.body = body]
       IN  proc' = [proc EXCEPT ![p] =
                IF session[client] = Null
                THEN [req EXCEPT !.rpc = "deserializeUser", !.pc = "return",
                                 !.ret = Undefined]
                ELSE Await(req, "deserializeUser", "getUser", "queryFirst",
                           USERS_COLLECTION, session[client].v,
                           [id |-> session[client]])]
    /\ ncalls' = ncalls + 1
    /\ StoreUnchanged /\ HistoryUnchanged
    /\ UNCHANGED <<initPc, session, workload>>

\* (mutant: a request without a user keeps going as the first stored account)
ReqUserAnyone(p) ==
    IF proc[p].ret.t = "value" THEN proc[p].ret.v
    ELSE users[CHOOSE k \in DOMAIN users : TRUE]

\* req.user after deserializeUser: done(null, user)
ReqUser(p) == IF proc[p].ret.t = "value" THEN proc[p].ret.v ELSE Null

\* the handler's frame once req.user is set
WithUser(p) == [proc[p] EXCEPT !.user = ReqUser(p)]

\* (req.user as any).id
UserId(frame) == frame.user["id"]

\* deserializeUser's done(error), else ensureAuthenticated: next() when
\* req.isAuthenticated(), else 401
EnsureAuthenticated(p, next) ==
    IF Failed(p) THEN Caught(p)
    ELSE IF ReqUser(p) = Null THEN Respond(proc[p], 401, Str("Unauthorized"))
    ELSE next

TradeRoutes ==
    {"GET /api/trades", "POST /api/trades", "GET /api/trades/:id",
     "PUT /api/trades/:id", "DELETE /api/trades/:id"}

CollectionRoutes ==
    {"GET /api/collections", "POST /api/collections", "GET /api/collections/:id",
     "PUT /api/collections/:id", "DELETE /api/collections/:id",
     "GET /api/collections/:id/trades"}

ListRoutes == {"GET /api/trades", "GET /api/collections"}
PostRoutes == {"POST /api/trades", "POST /api/collections"}
GetByIdRoutes == {"GET /api/trades/:id", "GET /api/collections/:id"}
PutRoutes == {"PUT /api/trades/:id", "PUT /api/collections/:id"}
DeleteRoutes == {"DELETE /api/trades/:id", "DELETE /api/collections/:id"}
ByIdRoutes ==
    GetByIdRoutes \cup PutRoutes \cup DeleteRoutes
        \cup {"GET /api/collections/:id/trades"}

\* the collection a route's record lives in
RouteColl(route) ==
    IF route \in TradeRoutes THEN TRADES_COLLECTION ELSE COLLECTIONS_COLLECTION

\* insertUserSchema, insertTradeSchema, insertCollectionSchema: the fields
\* of the insert type; safeParse drops every other key and fails when a
\* required one is missing
InsertFields(c) ==
    CASE c = USERS_COLLECTION -> {"username", "email", "password", "avatar"}
      [] c = TRADES_COLLECTION -> {"userId", "symbol", "notes", "collectionId"}
      [] c = COLLECTIONS_COLLECTION -> {"userId", "name", "description"}

RequiredFields(c) ==
    CASE c = USERS_COLLECTION -> {"username", "email", "password"}
      [] c = TRADES_COLLECTION -> {"userId", "symbol"}
      [] c = COLLECTIONS_COLLECTION -> {"userId", "name"}

SafeParse(c, obj) ==
    [success |-> RequiredFields(c) \subseteq DOMAIN obj,
     data |-> [f \in DOMAIN obj \cap InsertFields(c) |-> obj[f]]]

\* request bodies
TradePostBodies ==
    { [symbol |-> Str("AAPL")],
      [symbol |-> Str("MSFT"), collectionId |-> Num(1)],
      [symbol |-> Str("TSLA"), collectionId |-> Num(9), userId |-> Num(1)],
      [notes |-> Str("n")] }

CollectionPostBodies ==
    { [name |-> Str("scalp")], [description |-> Str("d")] }

PutBodies ==
    { [notes |-> Str("x")], [id |-> Num(2)], [userId |-> Num(2)],
      [entryDate |-> Str("2024-01-01")] }

\* ---- GET /api/trades, GET /api/collections

GetTrades(p) ==
    \E client \in Clients : Receive(p, "GET /api/trades", client, <<>>, EmptyObj)

GetCollections(p) ==
    \E client \in Clients :
        Receive(p, "GET /api/collections", client, <<>>, EmptyObj)

\* const userId = req.user.id; await storage.getUserTrades(userId)
ListBegin(p) ==
    /\ proc[p].route \in ListRoutes
    /\ Settled(p, "deserializeUser")
    /\ HandlerStep(p, EnsureAuthenticated(p,
          Await(WithUser(p), "list",
                IF proc[p].route = "GET /api/trades" THEN "getUserTrades"
                ELSE "getUserCollections",
                "queryAll", RouteColl(proc[p].route), 0,
                [userId |-> UserId(WithUser(p))])))

\* res.json(trades)
ListRespond(p) ==
    /\ Settled(p, "list")
    /\ HandlerStep(p, IF Failed(p) THEN Caught(p)
                      ELSE Respond(proc[p], 200, proc[p].ret))

\* ---- POST /api/trades, POST /api/collections

PostTrade(p) ==
    \E client \in Clients, body \in TradePostBodies :
        Receive(p, "POST /api/trades", client, <<>>, body)

PostCollection(p) ==
    \E client \in Clients, body \in CollectionPostBodies :
        Receive(p, "POST /api/collections", client, <<>>, body)

\* safeParse({ ...req.body, userId }); 400 when it fails;
\* else await storage.createTrade(validateResult.data)
PostBegin(p) ==
    /\ proc[p].route \in PostRoutes
    /\ Settled(p, "deserializeUser")
    /\ LET c == RouteColl(proc[p].route)
           parsed == SafeParse(c, Spread(proc[p].body,
                                         [userId |-> UserId(WithUser(p))]))
       IN  HandlerStep(p, EnsureAuthenticated(p,
              IF ~parsed.success
              THEN Respond(WithUser(p), 400, Str("Invalid data"))
              ELSE Await(WithUser(p), "create",
                         IF c = TRADES_COLLECTION THEN "createTrade"
                         ELSE "createCollection",
                         "getNextId:get", c, 0, parsed.data)))

\* res.status(201).json(trade)
PostRespond(p) ==
    /\ Settled(p, "create")
    /\ HandlerStep(p, IF Failed(p) THEN Caught(p)
                      ELSE Respond(proc[p], 201, proc[p].ret))

\* ---- the routes with an :id

ById(p, route, bodies) ==
    \E client \in Clients, param \in Params, body \in bodies :
        Receive(p, route, client, param, body)

GetTradeById(p) == ById(p, "GET /api/trades/:id", {EmptyObj})
PutTrade(p) == ById(p, "PUT /api/trades/:id", PutBodies)
DeleteTradeById(p) == ById(p, "DELETE /api/trades/:id", {EmptyObj})
GetCollectionById(p) == ById(p, "GET /api/collections/:id", {EmptyObj})
PutCollection(p) == ById(p, "PUT /api/collections/:id", PutBodies)
DeleteCollectionById(p) == ById(p, "DELETE /api/collections/:id", {EmptyObj})
GetTradesOfCollection(p) == ById(p, "GET /api/collections/:id/trades", {EmptyObj})

\* const trade = await storage.getTrade(parseInt(req.params.id))
ByIdBegin(p) ==
    /\ proc[p].route \in ByIdRoutes
    /\ Settled(p, "deserializeUser")
    /\ HandlerStep(p, EnsureAuthenticated(p,
          Await(WithUser(p), "load",
                IF proc[p].route \in TradeRoutes THEN "getTrade" ELSE "getCollection",
                "get", RouteColl(proc[p].route), ParseInt(proc[p].param),
                EmptyObj)))

\* the storage call a handler makes once the owner check has passed
Permitted(frame) ==
    LET id == ParseInt(frame.param)
        c == RouteColl(frame.route)
    IN  CASE frame.route \in GetByIdRoutes -> Respond(frame, 200, frame.ret)
          [] frame.route = "PUT /api/trades/:id" ->
                Await(frame, "act", "updateTrade", "update:get", c, id, frame.body)
          [] frame.route = "PUT /api/collections/:id" ->
                Await(frame, "act", "updateCollection", "update:get", c, id, frame.body)
          [] frame.route = "DELETE /api/trades/:id" ->
                Await(frame, "act", "deleteTrade", "delete:get", c, id, EmptyObj)
          [] frame.route = "DELETE /api/collections/:id" ->
                Await(frame, "act", "deleteCollection", "delete:get", c, id, EmptyObj)
          [] frame.route = "GET /api/collections/:id/trades" ->
                Await(frame, "act", "getCollectionTrades", "queryAll",
                      TRADES_COLLECTION, id, [collectionId |-> Num(id)])

\* if (!trade) 404; if (trade.userId !== userId) 403; else the route's call
OwnerCheck(p) ==
    /\ Settled(p, "load")
    /\ HandlerStep(p,
          IF Failed(p) THEN Caught(p)
          ELSE IF proc[p].ret = Undefined
               THEN Respond(proc[p], 404, Str("Not found"))
          ELSE IF Field(proc[p].ret.v, "userId") # UserId(proc[p])
               THEN Respond(proc[p], 403, Str("Forbidden"))
          ELSE Permitted(proc[p]))

\* res.json(updatedTrade) / res.json({ message: "... deleted successfully" })
\* / res.json(trades)
ActRespond(p) ==
    /\ Settled(p, "act")
    /\ HandlerStep(p,
          IF Failed(p) THEN Caught(p)
          ELSE IF proc[p].route \in DeleteRoutes
               THEN Respond(proc[p], 200, Str("deleted successfully"))
          ELSE Respond(proc[p], 200, proc[p].ret))

-----------------------------------------------------------------------------
(* The journal in use: two accounts are registered and logged in, account  *)
(* 1 has created one collection and one trade, and both clients send       *)
(* requests to the trade and collection routes.                            *)

SeedUsers ==
    << [username |-> Str("alice"), email |-> Str("a@x.com"), password |-> Str("h1")],
       [username |-> Str("bob"), email |-> Str("b@x.com"), password |-> Str("h2")] >>

SeedTrade == [userId |-> Num(1), symbol |-> Str("AAPL")]
SeedCollection == [userId |-> Num(1), name |-> Str("swing")]

JournalWorkloads == {TradeRoutes \cup CollectionRoutes}

JournalInit ==
    /\ counterDoc = [exists |-> TRUE, updateTime |-> 5,
                     userId |-> 3, tradeId |-> 2, collectionId |-> 2]
    /\ users = DocSet(DocSet(<<>>, NumToString(1), UserRecord(SeedUsers[1], 1)),
                      NumToString(2), UserRecord(SeedUsers[2], 2))
    /\ trades = DocSet(<<>>, NumToString(1), TradeRecord(SeedTrade, 1))
    /\ collections = DocSet(<<>>, NumToString(1), CollectionRecord(SeedCollection, 1))
    /\ initPc = [i \in Instances |-> IF i = "i1" THEN "done" ELSE "off"]
    /\ proc = [p \in Procs |-> Idle]
    /\ session = [c \in Clients |-> IF c = "c1" THEN Num(1) ELSE Num(2)]
    /\ ncalls = 0
    /\ workload \in JournalWorkloads
    /\ issued = [n \in CounterNames |-> IF n = "userId" THEN <<1, 2>> ELSE <<1>>]
    /\ returned = [c \in CollectionNames |->
                     IF c = USERS_COLLECTION THEN <<Num(1), Num(2)>> ELSE <<Num(1)>>]
    /\ deletedTrue = [c \in CollectionNames |-> {}]
    /\ fresh = [c \in CollectionNames |->
                  CASE c = USERS_COLLECTION ->
                         Noted(Noted(<<>>, NumToString(1), UserRecord(SeedUsers[1], 1)),
                               NumToString(2), UserRecord(SeedUsers[2], 2))
                    [] c = TRADES_COLLECTION ->
                         Noted(<<>>, NumToString(1), TradeRecord(SeedTrade, 1))
                    [] c = COLLECTIONS_COLLECTION ->
                         Noted(<<>>, NumToString(1), CollectionRecord(SeedCollection, 1))]

JournalNext ==
    \E p \in Procs :
        \/ GetTrades(p) \/ PostTrade(p)
        \/ GetTradeById(p) \/ PutTrade(p) \/ DeleteTradeById(p)
        \/ GetCollections(p) \/ PostCollection(p)
        \/ GetCollectionById(p) \/ PutCollection(p) \/ DeleteCollectionById(p)
        \/ GetTradesOfCollection(p)
        \/ ListBegin(p) \/ ListRespond(p)
        \/ PostBegin(p) \/ PostRespond(p)
        \/ ByIdBegin(p) \/ OwnerCheck(p) \/ ActRespond(p)
        \/ StorageStep(p)

Journal == JournalInit /\ [][JournalNext]_vars

-----------------------------------------------------------------------------
(* POST /api/auth/register on a fresh database.                            *)

RegisterBodies ==
    { [username |-> Str("alice"), email |-> Str("a@x.com"), password |-> Str("pw")],
      [username |-> Str("alice"), email |-> Str("b@x.com"), password |-> Str("pw")],
      [username |-> Str("bob"), email |-> Str("a@x.com"), password |-> Str("pw")],
      [username |-> Str("carol")] }

PostRegister(p) ==
    \E client \in Clients, body \in RegisterBodies :
        Receive(p, "POST /api/auth/register", client, <<>>, body)

\* await hash(password, 10)
Hash(password) == Str("bcrypt:" \o password.v)

\* const validateResult = insertUserSchema.safeParse(req.body); 400 when it
\* fails; else await storage.getUserByEmail(email)
RegisterBegin(p) ==
    /\ proc[p].route = "POST /api/auth/register"
    /\ Settled(p, "deserializeUser")
    /\ LET parsed == SafeParse(USERS_COLLECTION, proc[p].body) IN
       HandlerStep(p,
          IF ~parsed.success
          THEN Respond(proc[p], 400, Str("Invalid user data"))
          ELSE Await(proc[p], "register:email", "getUserByEmail", "queryFirst",
                     USERS_COLLECTION, 0, [email |-> parsed.data["email"]]))

\* (mutant: an account found by the email does not stop the registration)
RegisterEmailUnchecked(p) ==
    /\ Settled(p, "register:email")
    /\ LET parsed == SafeParse(USERS_COLLECTION, proc[p].body) IN
       HandlerStep(p,
          IF Failed(p) THEN Caught(p)
          ELSE Await(proc[p], "register:username", "getUserByUsername",
                     "queryFirst", USERS_COLLECTION, 0,
                     [username |-> parsed.data["username"]]))

\* if (existingUser) 400; else await storage.getUserByUsername(username)
RegisterEmailChecked(p) ==
    /\ Settled(p, "register:email")
    /\ LET parsed == SafeParse(USERS_COLLECTION, proc[p].body) IN
       HandlerStep(p,
          IF Failed(p) THEN Caught(p)
          ELSE IF proc[p].ret.t = "value"
               THEN Respond(proc[p], 400, Str("Email already registered"))
          ELSE Await(proc[p], "register:username", "getUserByUsername",
                     "queryFirst", USERS_COLLECTION, 0,
                     [username |-> parsed.data["username"]]))

\* if (existingUsername) 400; else hash the password and
\* await storage.createUser({ ...validateResult.data, password: hashedPassword })
RegisterUsernameChecked(p) ==
    /\ Settled(p, "register:username")
    /\ LET parsed == SafeParse(USERS_COLLECTION, proc[p].body) IN
       HandlerStep(p,
          IF Failed(p) THEN Caught(p)
          ELSE IF proc[p].ret.t = "value"
               THEN Respond(proc[p], 400, Str("Username already taken"))
          ELSE Await(proc[p], "register:create", "createUser", "getNextId:get",
                     USERS_COLLECTION, 0,
                     Spread(parsed.data,
                            [password |-> Hash(parsed.data["password"])])))

\* const { password: _, ...safeUser } = user
SafeUser(user) == [f \in DOMAIN user \ {"password"} |-> user[f]]

\* res.status(201).json(safeUser)
RegisterRespond(p) ==
    /\ Settled(p, "register:create")
    /\ HandlerStep(p, IF Failed(p) THEN Caught(p)
                      ELSE Respond(proc[p], 201, Val(SafeUser(proc[p].ret.v))))

RegisterInit ==
    /\ counterDoc = NoCounterDoc
    /\ users = <<>>
    /\ trades = <<>>
    /\ collections = <<>>
    /\ initPc = [i \in Instances |-> IF i = "i1" THEN "get" ELSE "off"]
    /\ proc = [p \in Procs |-> Idle]
    /\ session = [c \in Clients |-> Null]
    /\ ncalls = 0
    /\ workload = {"POST /api/auth/register"}
    /\ NoHistory

RegisterNext ==
    \/ \E i \in Instances : InitializeCountersGet(i) \/ InitializeCountersSet(i)
    \/ \E p \in Procs :
        \/ PostRegister(p)
        \/ RegisterBegin(p) \/ RegisterEmailChecked(p)
        \/ RegisterUsernameChecked(p) \/ RegisterRespond(p)
        \/ QueryFirst(p)
        \/ GetNextIdRead(p) \/ GetNextIdCommit(p) \/ CreateSet(p)

Register == RegisterInit /\ [][RegisterNext]_vars

-----------------------------------------------------------------------------
(* POST /api/create-subscription (registered when Stripe is configured),   *)
(* next to POST /api/auth/register, on a database holding one account.     *)

\* String.prototype.includes
Includes(cs, sub) ==
    \E i \in 1..(Len(cs) - Len(sub) + 1) : SubSeq(cs, i, i + Len(sub) - 1) = sub

\* (mutant: a third plan name is written)
PlanTypeOfPremium(planId) ==
    IF Includes(planId.v, <<"p", "r", "o">>) THEN "premium" ELSE "basic"

\* planId.includes('pro') ? 'pro' : 'basic'
PlanTypeOf(planId) ==
    IF Includes(planId.v, <<"p", "r", "o">>) THEN "pro" ELSE "basic"

SubscriptionBodies ==
    { [planId |-> Text(<<"p", "r", "o", "_", "m">>)],
      [planId |-> Text(<<"b", "a", "s">>)],
      [planId |-> Text(<<"P", "R", "O">>)],
      [planId |-> Num(7)],
      EmptyObj }

PostSubscription(p) ==
    \E client \in Clients, body \in SubscriptionBodies :
        Receive(p, "POST /api/create-subscription", client, <<>>, body)

\* the ids Stripe gives a new customer and a new subscription
StripeCustomer == "cus_1"
StripeSubscription == "sub_1"

\* catch: res.status(500).json({ message: "Error creating subscription: " + ... })
SubscriptionError(frame, message) ==
    Respond(frame, 500, Str("Error creating subscription: " \o message))

\* let customerId = user.stripeCustomerId, replaced by customer.id when falsy
CustomerId(frame) ==
    IF Truthy(frame.user["stripeCustomerId"])
    THEN frame.user["stripeCustomerId"].v
    ELSE StripeCustomer

\* await stripe.subscriptions.create(...), which resolves (ok) or rejects;
\* then await storage.updateUserStripeInfo(user.id, { customerId, subscriptionId })
CreateSubscription(frame, ok) ==
    IF ~ok THEN SubscriptionError(frame, "stripe")
    ELSE Await(frame, "subscribe:subscription", "updateUserStripeInfo",
               "update:get", USERS_COLLECTION, UserId(frame).v,
               StripeUpdate([customerId |-> CustomerId(frame),
                             subscriptionId |-> StripeSubscription]))

\* if (!planId) 400; if (!customerId) { await stripe.customers.create(...);
\* await storage.updateUserStripeInfo(user.id, { customerId: customer.id,
\* subscriptionId: user.stripeSubscriptionId || "" }) }
SubscribeBegin(p) ==
    /\ proc[p].route = "POST /api/create-subscription"
    /\ Settled(p, "deserializeUser")
    /\ \E ok \in BOOLEAN :
        LET frame == WithUser(p) IN
        HandlerStep(p, EnsureAuthenticated(p,
            IF ~Truthy(Field(frame.body, "planId"))
            THEN Respond(frame, 400, Str("Plan ID is required"))
            ELSE IF Truthy(frame.user["stripeCustomerId"])
            THEN CreateSubscription(frame, ok)
            ELSE IF ~ok THEN SubscriptionError(frame, "stripe")
            ELSE Await(frame, "subscribe:customer", "updateUserStripeInfo",
                       "update:get", USERS_COLLECTION, UserId(frame).v,
                       StripeUpdate(
                         [customerId |-> StripeCustomer,
                          subscriptionId |->
                            OrElse(frame.user["stripeSubscriptionId"], Str("")).v]))))

\* the customer id is saved; create the subscription
SubscribeCustomerSaved(p) ==
    /\ Settled(p, "subscribe:customer")
    /\ \E ok \in BOOLEAN :
        HandlerStep(p, IF Failed(p) THEN SubscriptionError(proc[p], proc[p].ret.v)
                       ELSE CreateSubscription(proc[p], ok))

\* const planType = planId.includes('pro') ? 'pro' : 'basic';
\* await storage.updateUserPlan(user.id, planType)
SubscribeSubscriptionSaved(p) ==
    /\ Settled(p, "subscribe:subscription")
    /\ HandlerStep(p,
          IF Failed(p) THEN SubscriptionError(proc[p], proc[p].ret.v)
          ELSE IF proc[p].body["planId"].t # "text"
               THEN SubscriptionError(proc[p], "planId.includes is not a function")
          ELSE Await(proc[p], "subscribe:plan", "updateUserPlan", "update:get",
                     USERS_COLLECTION, UserId(proc[p]).v,
                     PlanUpdate(PlanTypeOf(proc[p].body["planId"]))))

\* res.json({ subscriptionId: subscription.id, clientSecret })
SubscribeRespond(p) ==
    /\ Settled(p, "subscribe:plan")
    /\ HandlerStep(p, IF Failed(p) THEN SubscriptionError(proc[p], proc[p].ret.v)
                      ELSE Respond(proc[p], 200, Str(StripeSubscription)))

\* the one account registered earlier, logged in on client c1
SeedSubscriber ==
    [username |-> Str("dave"), email |-> Str("d@x.com"), password |-> Str("h0")]

BillingInit ==
    /\ counterDoc = [exists |-> TRUE, updateTime |-> 2,
                     userId |-> 2, tradeId |-> 1, collectionId |-> 1]
    /\ users = DocSet(<<>>, NumToString(1), UserRecord(SeedSubscriber, 1))
    /\ trades = <<>>
    /\ collections = <<>>
    /\ initPc = [i \in Instances |-> IF i = "i1" THEN "done" ELSE "off"]
    /\ proc = [p \in Procs |-> Idle]
    /\ session = [c \in Clients |-> IF c = "c1" THEN Num(1) ELSE Null]
    /\ ncalls = 0
    /\ workload = {"POST /api/create-subscription", "POST /api/auth/register"}
    /\ issued = [n \in CounterNames |-> IF n = "userId" THEN <<1>> ELSE <<>>]
    /\ returned = [c \in CollectionNames |->
                     IF c = USERS_COLLECTION THEN <<Num(1)>> ELSE <<>>]
    /\ deletedTrue = [c \in CollectionNames |-> {}]
    /\ fresh = [c \in CollectionNames |->
                  IF c = USERS_COLLECTION
                  THEN Noted(<<>>, NumToString(1), UserRecord(SeedSubscriber, 1))
                  ELSE <<>>]

BillingNext ==
    \E p \in Procs :
        \/ PostSubscription(p)
        \/ SubscribeBegin(p) \/ SubscribeCustomerSaved(p)
        \/ SubscribeSubscriptionSaved(p) \/ SubscribeRespond(p)
        \/ PostRegister(p)
        \/ RegisterBegin(p) \/ RegisterEmailChecked(p)
        \/ RegisterUsernameChecked(p) \/ RegisterRespond(p)
        \/ QueryFirst(p)
        \/ GetNextIdRead(p) \/ GetNextIdCommit(p) \/ CreateSet(p)
        \/ UpdateCheck(p) \/ UpdateWrite(p) \/ UpdateReread(p)

Billing == BillingInit /\ [][BillingNext]_vars

-----------------------------------------------------------------------------
(* The normalizer on documents the program did not write itself: the       *)
(* trades collection holds one or two documents under keys that need not   *)
(* be numbers, and the read methods run on it.                             *)

NormKeys ==
    { <<"2">>, <<"4">>, <<"4", "2">>, <<"0", "4">>,
      <<"a">>, <<"4", "a">>, <<"a", "2">>, <<"a", "a">> }

NormDocs ==
    { [userId |-> Num(1), symbol |-> Str("AAPL")],
      [userId |-> Num(1), id |-> Num(7), createdAt |-> Timestamp("t0"),
       notes |-> Str("n")],
      [userId |-> Num(2), createdAt |-> Timestamp("t0"),
       entryDate |-> Timestamp("t1"), exitDate |-> Timestamp("t2"),
       collectionId |-> Num(1)],
      [userId |-> Num(2), id |-> Str("x"), exitDate |-> Timestamp("t2")] }

NormalizerInit ==
    /\ counterDoc = [exists |-> TRUE, updateTime |-> 1,
                     userId |-> 1, tradeId |-> 1, collectionId |-> 1]
    /\ users = <<>>
    /\ \E K \in SUBSET NormKeys, d \in NormDocs :
          /\ Cardinality(K) \in {1, 2}
          /\ trades = [k \in K |-> d]
    /\ collections = <<>>
    /\ initPc = [i \in Instances |-> IF i = "i1" THEN "done" ELSE "off"]
    /\ proc = [p \in Procs |-> Idle]
    /\ session = [c \in Clients |-> Null]
    /\ ncalls = 0
    /\ workload = {"getTrade", "getUserTrades"}
    /\ NoHistory

NormalizerNext ==
    \E p \in Procs :
        \/ getTrade(p) \/ getUserTrades(p)
        \/ GetDoc(p) \/ QueryAll(p)

Normalizer == NormalizerInit /\ [][NormalizerNext]_vars

-----------------------------------------------------------------------------
(* The session routes, POST /api/auth/login, POST /api/auth/logout and     *)
(* GET /api/auth/current-user, next to guarded routes that write: two      *)
(* accounts are registered, account 2 is logged in on client c1 and owns   *)
(* a trade, client c2 has no authenticated session.                        *)

SeedMembers ==
    << [username |-> Str("alice"), email |-> Str("a@x.com"),
        password |-> Hash(Str("pw1"))],
       [username |-> Str("bob"), email |-> Str("b@x.com"),
        password |-> Hash(Str("pw2"))] >>

MemberTrade == [userId |-> Num(2), symbol |-> Str("AAPL")]

LoginBodies ==
    { [email |-> Str("a@x.com"), password |-> Str("pw1")],
      [email |-> Str("b@x.com"), password |-> Str("pw2")],
      [email |-> Str("a@x.com"), password |-> Str("pw2")],
      [email |-> Str("z@x.com"), password |-> Str("pw1")],
      [email |-> Str("a@x.com")],
      [email |-> Str("a@x.com"), password |-> Num(7)] }

PostLogin(p) ==
    \E client \in Clients, body \in LoginBodies :
        Receive(p, "POST /api/auth/login", client, <<>>, body)

PostLogout(p) ==
    \E client \in Clients :
        Receive(p, "POST /api/auth/logout", client, <<>>, EmptyObj)

GetCurrentUser(p) ==
    \E client \in Clients :
        Receive(p, "GET /api/auth/current-user", client, <<>>, EmptyObj)

\* bcryptjs compare(s, hash) rejects unless both arguments are strings
CompareRejects(password, hashed) ==
    password.t # "string" \/ hashed.t # "string"

\* await compare(password, user.password), for two strings
Compare(password, hashed) == hashed = Hash(password)

\* passport.authenticate("local", callback): the strategy fails with
\* "Missing credentials" when the body lacks the email or the password, and
\* the callback answers 401; else the verify function awaits
\* storage.getUserByEmail(email)
LoginBegin(p) ==
    /\ proc[p].route = "POST /api/auth/login"
    /\ Settled(p, "deserializeUser")
    /\ HandlerStep(p,
          IF Failed(p) THEN Caught(p)
          ELSE IF \/ ~Truthy(Field(proc[p].body, "email"))
                  \/ ~Truthy(Field(proc[p].body, "password"))
               THEN Respond(WithUser(p), 401, Str("Missing credentials"))
          ELSE Await(WithUser(p), "login:user", "getUserByEmail", "queryFirst",
                     USERS_COLLECTION, 0, [email |-> proc[p].body["email"]]))

\* if (!user) done(null, false); if (!isPasswordValid) done(null, false);
\* catch: done(error) -> next(err); else done(null, user) and
\* req.logIn(user): serializeUser puts user.id in the session; res.json(safeUser)
LoginVerify(p) ==
    /\ Settled(p, "login:user")
    /\ LET found == proc[p].ret.t = "value"
           rejects == found /\ CompareRejects(proc[p].body["password"],
                                              Field(proc[p].ret.v, "password"))
           valid == /\ found
                    /\ ~rejects
                    /\ Compare(proc[p].body["password"], proc[p].ret.v["password"])
       IN  /\ proc' = [proc EXCEPT ![p] =
                IF Failed(p) THEN Caught(p)
                ELSE IF ~found
                     THEN Respond(proc[p], 401, Str("Invalid email or password"))
                ELSE IF rejects
                     THEN Respond(proc[p], 500, Str("Illegal arguments"))
                ELSE IF ~valid
                     THEN Respond(proc[p], 401, Str("Invalid email or password"))
                ELSE Respond(proc[p], 200, Val(SafeUser(proc[p].ret.v)))]
           /\ session' = IF valid
                         THEN [session EXCEPT ![proc[p].client] = proc[p].ret.v["id"]]
                         ELSE session
    /\ StoreUnchanged /\ HistoryUnchanged
    /\ UNCHANGED <<initPc, ncalls, workload>>

\* req.logout(callback): the user id is removed from the session and the
\* session saved (ok), or saving fails and the callback gets the error
Logout(p) ==
    /\ proc[p].route = "POST /api/auth/logout"
    /\ Settled(p, "deserializeUser")
    /\ \E ok \in BOOLEAN :
        /\ proc' = [proc EXCEPT ![p] =
              IF Failed(p) THEN Caught(p)
              ELSE IF ~ok THEN Respond(WithUser(p), 500, Str("Error logging out"))
              ELSE Respond(WithUser(p), 200, Str("Logged out successfully"))]
        /\ session' = IF ~Failed(p) /\ ok
                      THEN [session EXCEPT ![proc[p].client] = Null]
                      ELSE session
    /\ StoreUnchanged /\ HistoryUnchanged
    /\ UNCHANGED <<initPc, ncalls, workload>>

\* if (!req.isAuthenticated()) 401; else res.json(safeUser)
CurrentUser(p) ==
    /\ proc[p].route = "GET /api/auth/current-user"
    /\ Settled(p, "deserializeUser")
    /\ HandlerStep(p,
          IF Failed(p) THEN Caught(p)
          ELSE IF ReqUser(p) = Null
               THEN Respond(proc[p], 401, Str("Not authenticated"))
          ELSE Respond(WithUser(p), 200, Val(SafeUser(ReqUser(p)))))

SessionRoutes ==
    {"POST /api/auth/login", "POST /api/auth/logout", "GET /api/auth/current-user"}

SessionsWorkloads ==
    { SessionRoutes,
      {"POST /api/trades", "POST /api/collections"},
      {"PUT /api/trades/:id", "DELETE /api/trades/:id"},
      {"POST /api/create-subscription"},
      {"POST /api/auth/login", "POST /api/collections"} }

SessionsInit ==
    /\ counterDoc = [exists |-> TRUE, updateTime |-> 4,
                     userId |-> 3, tradeId |-> 2, collectionId |-> 1]
    /\ users = DocSet(DocSet(<<>>, NumToString(1), UserRecord(SeedMembers[1], 1)),
                      NumToString(2), UserRecord(SeedMembers[2], 2))
    /\ trades = DocSet(<<>>, NumToString(1), TradeRecord(MemberTrade, 1))
    /\ collections = <<>>
    /\ initPc = [i \in Instances |-> IF i = "i1" THEN "done" ELSE "off"]
    /\ proc = [p \in Procs |-> Idle]
    /\ session = [c \in Clients |-> IF c = "c1" THEN Num(2) ELSE Null]
    /\ ncalls = 0
    /\ workload \in SessionsWorkloads
    /\ issued = [n \in CounterNames |->
                   CASE n = "userId" -> <<1, 2>>
                     [] n = "tradeId" -> <<1>>
                     [] n = "collectionId" -> <<>>]
    /\ returned = [c \in CollectionNames |->
                     CASE c = USERS_COLLECTION -> <<Num(1), Num(2)>>
                       [] c = TRADES_COLLECTION -> <<Num(1)>>
                       [] c = COLLECTIONS_COLLECTION -> <<>>]
    /\ deletedTrue = [c \in CollectionNames |-> {}]
    /\ fresh = [c \in CollectionNames |->
                  CASE c = USERS_COLLECTION ->
                         Noted(Noted(<<>>, NumToString(1), UserRecord(SeedMembers[1], 1)),
                               NumToString(2), UserRecord(SeedMembers[2], 2))
                    [] c = TRADES_COLLECTION ->
                         Noted(<<>>, NumToString(1), TradeRecord(MemberTrade, 1))
                    [] c = COLLECTIONS_COLLECTION -> <<>>]

SessionsNext ==
    \E p \in Procs :
        \/ PostLogin(p) \/ PostLogout(p) \/ GetCurrentUser(p)
        \/ LoginBegin(p) \/ LoginVerify(p) \/ Logout(p) \/ CurrentUser(p)
        \/ PostTrade(p) \/ PostCollection(p)
        \/ PostBegin(p) \/ PostRespond(p)
        \/ PutTrade(p) \/ DeleteTradeById(p)
        \/ ByIdBegin(p) \/ OwnerCheck(p) \/ ActRespond(p)
        \/ PostSubscription(p)
        \/ SubscribeBegin(p) \/ SubscribeCustomerSaved(p)
        \/ SubscribeSubscriptionSaved(p) \/ SubscribeRespond(p)
        \/ GetNextIdRead(p) \/ GetNextIdCommit(p) \/ CreateSet(p)
        \/ GetDoc(p) \/ QueryFirst(p)
        \/ UpdateCheck(p) \/ UpdateWrite(p) \/ UpdateReread(p)
        \/ DeleteCheck(p) \/ DeleteWrite(p)

Sessions == SessionsInit /\ [][SessionsNext]_vars

-----------------------------------------------------------------------------
(* The methods that return one record by id, on documents whose payload    *)
(* holds an id field of its own: a PUT route stores whatever id its body   *)
(* names, so the id field of a stored document need not be its key.        *)

\* the id fields a stored payload holds
PayloadIds == {Num(1), Num(2), Str("x"), Null}

\* storage.updateTrade(tradeId, req.body), storage.updateCollection(..., req.body)
updateTradeFromBody(p) ==
    \E id \in IdArgs, body \in PutBodies :
        Start(p, Call("updateTrade", "update:get", TRADES_COLLECTION, id, body))

updateCollectionFromBody(p) ==
    \E id \in IdArgs, body \in PutBodies :
        Start(p, Call("updateCollection", "update:get", COLLECTIONS_COLLECTION,
                      id, body))

PayloadsWorkloads ==
    { {"getTrade", "updateTrade"}, {"getCollection", "updateCollection"} }

PayloadsInit ==
    /\ counterDoc = [exists |-> TRUE, updateTime |-> 3,
                     userId |-> 1, tradeId |-> 2, collectionId |-> 2]
    /\ users = <<>>
    /\ \E v \in PayloadIds :
          /\ trades = DocSet(<<>>, NumToString(1),
                             Spread(TradeRecord(SeedTrade, 1), [id |-> v]))
          /\ collections = DocSet(<<>>, NumToString(1),
                                  Spread(CollectionRecord(SeedCollection, 1),
                                         [id |-> v]))
    /\ initPc = [i \in Instances |-> IF i = "i1" THEN "done" ELSE "off"]
    /\ proc = [p \in Procs |-> Idle]
    /\ session = [c \in Clients |-> Null]
    /\ ncalls = 0
    /\ workload \in PayloadsWorkloads
    /\ NoHistory

PayloadsNext ==
    \E p \in Procs :
        \/ getTrade(p) \/ getCollection(p)
        \/ updateTradeFromBody(p) \/ updateCollectionFromBody(p)
        \/ GetDoc(p)
        \/ UpdateCheck(p) \/ UpdateWrite(p) \/ UpdateReread(p)

Payloads == PayloadsInit /\ [][PayloadsNext]_vars

-----------------------------------------------------------------------------
(* Two storage instances constructed on an empty database, as by two       *)
(* server processes started together: each runs initializeCounters, and    *)
(* create calls arrive meanwhile.                                          *)

StartupWorkloads == { {"createUser"}, {"createTrade", "createCollection"} }

StartupInit ==
    /\ counterDoc = NoCounterDoc
    /\ users = <<>>
    /\ trades = <<>>
    /\ collections = <<>>
    /\ initPc = [i \in Instances |-> "get"]
    /\ proc = [p \in Procs |-> Idle]
    /\ session = [c \in Clients |-> Null]
    /\ ncalls = 0
    /\ workload \in StartupWorkloads
    /\ NoHistory

StartupNext ==
    \/ \E i \in Instances : InitializeCountersGet(i) \/ InitializeCountersSet(i)
    \/ \E p \in Procs :
        \/ createUser(p) \/ createTrade(p) \/ createCollection(p)
        \/ GetNextIdRead(p) \/ GetNextIdCommit(p) \/ CreateSet(p)

Startup == StartupInit /\ [][StartupNext]_vars

-----------------------------------------------------------------------------
(* Properties of the store under direct calls.                             *)

\* the callers that hold an id getNextId gave them and have not returned yet
Holding(c) == {p \in Procs : proc[p].coll = c /\ proc[p].pc = "set"}

\* C1: for every entity kind, the create calls of a behaviour, their
\* getNextId transactions interleaved in any way, obtain pairwise distinct
\* identifiers: no two returned records, and no two calls in flight, share one.
C1_CreatesGetDistinctIds ==
    \A c \in CollectionNames :
        /\ \A i, j \in DOMAIN returned[c] :
              i # j => returned[c][i] # returned[c][j]
        /\ \A p, q \in Holding(c) : p # q => proc[p].id # proc[q].id
        /\ \A p \in Holding(c) : \A i \in DOMAIN returned[c] :
              Num(proc[p].id) # returned[c][i]

\* two creates of one kind have returned, one of them after its transaction
\* lost a race and ran again
C1_Witness ==
    \E c \in CollectionNames, p \in Procs :
        /\ Len(returned[c]) >= 2
        /\ proc[p].coll = c /\ proc[p].pc = "return"
        /\ proc[p].ret.t = "value" /\ proc[p].att >= 2

\* C2: for every entity kind the identifiers getNextId hands out are strictly
\* increasing in the order of allocation and all below the counter, so none is
\* handed out twice; an identifier whose record was deleted is not among the
\* identifiers issued after the delete returned.
C2_IdsIncreaseNeverReused ==
    \A c \in CollectionNames :
        LET ids == issued[CounterOf(c)] IN
        /\ \A i, j \in DOMAIN ids : i < j => ids[i] < ids[j]
        /\ \A i \in DOMAIN ids : counterDoc.exists /\ ids[i] < counterDoc[CounterOf(c)]
        /\ \A d \in deletedTrue[c] : \A i \in DOMAIN ids :
              i > d.at => NumToString(ids[i]) # d.key

\* a record was deleted and an identifier of its kind was issued afterwards
C2_Witness ==
    \E c \in CollectionNames : \E d \in deletedTrue[c] :
        Len(issued[CounterOf(c)]) > d.at

\* the callers inside one of the update methods / delete methods
UpdateMethods ==
    {"updateTrade", "updateCollection", "updateUserPlan", "updateUserStripeInfo"}

\* caller p takes a step (every step moves its pc)
Steps(p) == proc'[p].pc # proc[p].pc

Key(p) == NumToString(proc[p].id)
Stored(p) == Key(p) \in DOMAIN Coll(proc[p].coll)

StoreSame ==
    /\ counterDoc' = counterDoc
    /\ users' = users
    /\ trades' = trades
    /\ collections' = collections

C5_UpdateMissingIsNotFound ==
    [][\A p \in Procs :
          /\ ( proc[p].pc = "update:get" /\ Steps(p) /\ ~Stored(p) )
             => /\ proc'[p].pc = "return"
                /\ proc'[p].ret = Err(NotFoundMessage(proc[p].coll))
                /\ StoreSame
          /\ ( proc[p].op \in UpdateMethods /\ Steps(p) /\ ~IsIdle(p) )
             => \A c \in CollectionNames : DOMAIN Coll(c)' = DOMAIN Coll(c)
      ]_vars

\* an update has failed with Not-Found while its collection holds documents
C5_Witness ==
    \E p \in Procs :
        /\ proc[p].op \in UpdateMethods
        /\ proc[p].pc = "return"
        /\ proc[p].ret = Err(NotFoundMessage(proc[p].coll))
        /\ Coll(proc[p].coll) # <<>>

\* C6: a delete whose existence check finds no stored document returns false
\* there and writes nothing; one whose check finds the document removes it
\* and returns true; and once a delete of an identifier has returned true the
\* identifier has no stored document, so every get issued afterwards returns
\* undefined.
C6_DeleteReportsAndRemoves ==
    /\ [](\A c \in CollectionNames : \A d \in deletedTrue[c] :
             d.key \notin DOMAIN Coll(c))
    /\ [][\A p \in Procs :
             /\ ( proc[p].pc = "delete:get" /\ Steps(p) /\ ~Stored(p) )
                => /\ proc'[p].pc = "return"
                   /\ proc'[p].ret = Bool(FALSE)
                   /\ StoreSame
             /\ ( proc[p].pc = "delete:get" /\ Steps(p) /\ Stored(p) )
                => proc'[p].pc = "delete:delete" /\ StoreSame
             /\ ( proc[p].pc = "delete:delete" /\ Steps(p) )
                => /\ proc'[p].pc = "return"
                   /\ proc'[p].ret = Bool(TRUE)
                   /\ Key(p) \notin DOMAIN Coll(proc[p].coll)'
             /\ ( /\ proc[p].pc = "get" /\ Steps(p)
                  /\ \E d \in deletedTrue[proc[p].coll] : d.key = Key(p) )
                => proc'[p].ret = Undefined
         ]_vars

\* a get of an identifier has returned undefined after a delete of it
\* returned true (the record had been created and stored)
C6_Witness ==
    \E p \in Procs :
        /\ proc[p].op \in {"getTrade", "getCollection"}
        /\ proc[p].pc = "return"
        /\ proc[p].ret = Undefined
        /\ \E d \in deletedTrue[proc[p].coll] : d.key = Key(p)

\* C10: on a fresh store the first identifier given to createUser is 1 and
\* the second is 2; every record createUser returns has planType "free" and
\* null stripeCustomerId and stripeSubscriptionId whatever the caller
\* supplied; and getUserByUsername of the username stored in account 1
\* returns the record with identifier 1.
C10_FirstAccounts ==
    /\ [](/\ \A i \in DOMAIN issued["userId"] : i <= 2 => issued["userId"][i] = i
          /\ \A p \in Procs :
                ( proc[p].op = "createUser" /\ proc[p].pc = "return"
                  /\ proc[p].ret.t = "value" )
                => /\ proc[p].ret.v["planType"] = Str("free")
                   /\ proc[p].ret.v["stripeCustomerId"] = Null
                   /\ proc[p].ret.v["stripeSubscriptionId"] = Null)
    /\ [][\A p \in Procs :
             ( /\ proc[p].op = "getUserByUsername" /\ proc[p].pc = "queryFirst"
               /\ Steps(p)
               /\ NumToString(1) \in DOMAIN users
               /\ users[NumToString(1)]["username"] = WhereValue(p) )
             => /\ proc'[p].ret.t = "value"
                /\ proc'[p].ret.v["id"] = Num(1)
         ]_vars

\* two accounts with one username are stored, the second created from an
\* input that supplies planType and stripeCustomerId, and getUserByUsername
\* has returned account 1
C10_Witness ==
    /\ issued["userId"] = <<1, 2>>
    /\ DOMAIN users = {NumToString(1), NumToString(2)}
    /\ users[NumToString(1)]["username"] = users[NumToString(2)]["username"]
    /\ \E k \in DOMAIN users :
          users[k]["email"] = Str("b@x.com") /\ users[k]["planType"] = Str("free")
    /\ \E p \in Procs :
          /\ proc[p].op = "getUserByUsername" /\ proc[p].pc = "return"
          /\ proc[p].ret.t = "value"
          /\ proc[p].ret.v["id"] = Num(1)
          /\ proc[p].ret.v["planType"] = Str("free")

-----------------------------------------------------------------------------
(* Properties of the routes.                                               *)

\* C7: after any sequence of POST /api/auth/register requests, interleaved
\* or not, no two stored accounts have the same email and no two have the
\* same username.
C7_AccountsUnique ==
    \A j, k \in DOMAIN users :
        j # k => /\ Field(users[j], "email") # Field(users[k], "email")
                 /\ Field(users[j], "username") # Field(users[k], "username")

\* C3: every stored user, trade and collection document is stored under the
\* key that is the decimal string of the integer id field it holds, whatever
\* creates, updates (the PUT routes included) and deletes have run.
C3_KeyIsIdField ==
    \A c \in CollectionNames : \A k \in DOMAIN Coll(c) :
        /\ Field(Coll(c)[k], "id").t = "number"
        /\ NumToString(Field(Coll(c)[k], "id").v) = k

\* the account owning the stored record a frame's storage call is about
OwnerOf(p) == Field(Coll(proc[p].coll)[Key(p)], "userId")

\* the records a response carries
Records(sent) ==
    CASE sent.t = "value" -> {sent.v}
      [] sent.t = "list" -> {sent.v[i] : i \in DOMAIN sent.v}
      [] OTHER -> {}

\* C8: through the by-id routes a trade or collection is returned only to,
\* and updated or deleted only for, the principal that owns it at the moment
\* the read or the write takes effect; a request whose principal does not
\* own the record it names gets 403 and changes nothing.
C8_OwnerOnly ==
    /\ [](\A p \in Procs :
            (/\ proc[p].route \in GetByIdRoutes \cup {"GET /api/collections/:id/trades"}
             /\ proc[p].rpc = "responded"
             /\ proc[p].status = 200)
            => \A r \in Records(proc[p].sent) : Field(r, "userId") = UserId(proc[p]))
    /\ [][\A p \in Procs :
            /\ (/\ proc[p].route \in PutRoutes \cup DeleteRoutes
                /\ proc[p].pc \in {"update:update", "delete:delete"}
                /\ Steps(p) /\ Stored(p))
               => OwnerOf(p) = UserId(proc[p])
            /\ (/\ proc[p].route \in ByIdRoutes
                /\ Settled(p, "load")
                /\ proc[p].ret.t = "value"
                /\ Field(proc[p].ret.v, "userId") # UserId(proc[p])
                /\ proc'[p] # proc[p])
               => proc'[p].status = 403 /\ StoreSame]_vars

\* C9: when POST /api/trades stores a new trade, the account its userId
\* names is stored, and if its collectionId is not null a collection with
\* that identifier is stored at that moment.
C9_TradeRefsExist ==
    [][\A p \in Procs :
         (/\ proc[p].route = "POST /api/trades"
          /\ proc[p].pc = "set"
          /\ Steps(p))
         => LET rec == TradeRecord(proc[p].data, proc[p].id) IN
            /\ rec["userId"].t = "number"
            /\ NumToString(rec["userId"].v) \in DOMAIN users
            /\ rec["collectionId"] # Null =>
                  /\ rec["collectionId"].t = "number"
                  /\ NumToString(rec["collectionId"].v) \in DOMAIN collections]_vars

-----------------------------------------------------------------------------
(* Properties of the account updates, the normalizer and the reads.        *)

\* the step is the write of caller p's update method op on a stored record
Writes(p, op) ==
    /\ proc[p].op = op
    /\ proc[p].pc = "update:update"
    /\ Steps(p)
    /\ Stored(p)

\* users changes at most in the fields fs of the account under key
OnlyFieldsChange(key, fs) ==
    /\ DOMAIN users' = DOMAIN users
    /\ \A k \in DOMAIN users :
          /\ DOMAIN users'[k] = DOMAIN users[k]
          /\ \A f \in DOMAIN users[k] :
                (k # key \/ f \notin fs) => users'[k][f] = users[k][f]

\* C11: on a stored account updateUserPlan(id, p) changes only planType, to
\* p, and updateUserStripeInfo(id, s) changes only stripeCustomerId and
\* stripeSubscriptionId; a stored planType changes in no other step, and
\* getUser(id) returns the planType stored when it reads, so after
\* updateUserPlan(id, p) with no later update it returns planType = p.
C11_AccountUpdatesAreFramed ==
    [][/\ \A p \in Procs :
            /\ Writes(p, "updateUserPlan") =>
                  /\ OnlyFieldsChange(Key(p), {"planType"})
                  /\ users'[Key(p)]["planType"] = proc[p].data["planType"]
            /\ Writes(p, "updateUserStripeInfo") =>
                  /\ OnlyFieldsChange(Key(p), {"stripeCustomerId", "stripeSubscriptionId"})
                  /\ users'[Key(p)]["stripeCustomerId"] = proc[p].data["stripeCustomerId"]
                  /\ users'[Key(p)]["stripeSubscriptionId"]
                        = proc[p].data["stripeSubscriptionId"]
            /\ ( /\ proc[p].op = "getUser" /\ proc[p].pc = "queryFirst"
                 /\ Steps(p) /\ Stored(p) )
               => /\ proc'[p].ret.t = "value"
                  /\ proc'[p].ret.v["planType"] = users[Key(p)]["planType"]
       /\ \A k \in DOMAIN users \cap DOMAIN users' :
            users'[k]["planType"] # users[k]["planType"]
            => \E p \in Procs : Writes(p, "updateUserPlan") /\ Key(p) = k
      ]_vars

\* account 1, created from an input with an avatar, has had its plan set to
\* "pro" and getUser(1) has returned it with planType "pro", its avatar kept
C11_Witness ==
    \E p \in Procs :
        /\ proc[p].op = "getUser" /\ proc[p].pc = "return"
        /\ proc[p].ret.t = "value"
        /\ proc[p].ret.v["id"] = Num(1)
        /\ proc[p].ret.v["planType"] = Str("pro")
        /\ proc[p].ret.v["avatar"] # Null
        /\ users[NumToString(1)]["planType"] = Str("pro")

\* C12: every stored account's planType is "free", "basic" or "pro":
\* createUser writes "free" and POST /api/create-subscription, the one route
\* that changes it, writes "pro" or "basic".
C12_PlanTypeInFixedSet ==
    \A k \in DOMAIN users :
        Field(users[k], "planType") \in {Str("free"), Str("basic"), Str("pro")}

\* a create-subscription request has been answered 200 after setting account
\* 1 to "pro", and a second account has been registered
C12_Witness ==
    /\ \E p \in Procs :
          /\ proc[p].route = "POST /api/create-subscription"
          /\ proc[p].rpc = "responded"
          /\ proc[p].status = 200
    /\ users[NumToString(1)]["planType"] = Str("pro")
    /\ NumToString(2) \in DOMAIN users

\* n zeros
Zeros(n) == [i \in 1..n |-> "0"]

\* id is what the key denotes: for a key of digits the number whose decimal
\* string is the key without its leading zeros, for any other key the key
\* itself as a string
IdDenotes(key, id) ==
    IF \A i \in DOMAIN key : IsDigit(key[i])
    THEN /\ id.t = "number"
         /\ \E z \in 0..(Len(key) - 1) : key = Zeros(z) \o NumToString(id.v)
    ELSE id = StrOfKey(key)

\* the documents a settled read of caller p has converted, in order
DocsRead(p) ==
    IF proc[p].op = "getTrade"
    THEN <<Snapshot(proc[p].coll, Key(p))>>
    ELSE QueryDocs(proc[p].coll, WhereField(p), WhereValue(p))

\* the records a settled read of caller p has returned, in order
RecordsRead(p) ==
    IF proc[p].ret.t = "list" THEN proc[p].ret.v ELSE <<proc[p].ret.v>>

\* caller p's read has returned records
HasRead(p) ==
    /\ proc[p].op \in {"getTrade", "getUserTrades"}
    /\ proc[p].pc = "return"
    /\ proc[p].ret.t \in {"value", "list"}

\* C13: the record the normalizer makes of a stored document has as id the
\* number the document key denotes when the key is a valid number (key "42"
\* gives 42) and the key itself, a string, otherwise.
C13_IdIsKeyAsNumberOrString ==
    \A p \in Procs :
        HasRead(p) =>
            /\ Len(RecordsRead(p)) = Len(DocsRead(p))
            /\ \A i \in DOMAIN RecordsRead(p) :
                  IdDenotes(DocsRead(p)[i].id, RecordsRead(p)[i]["id"])

\* one query has returned the records of the documents "42" and "aa", with
\* ids 42 and "aa"
C13_Witness ==
    \E p \in Procs :
        /\ HasRead(p)
        /\ Len(RecordsRead(p)) = 2
        /\ RecordsRead(p)[1]["id"] = Num(42)
        /\ RecordsRead(p)[2]["id"] = StrOfKey(<<"a", "a">>)

\* the step is a conversion by caller p of the stored document its call names
Converts(p) ==
    /\ proc[p].pc \in {"get", "update:reget"}
    /\ Steps(p)
    /\ Stored(p)

\* C14: of a stored document the normalizer gives a record in which each of
\* createdAt, entryDate, exitDate that the document holds is that instant as
\* a date value, each of them that the document lacks is absent, and every
\* field other than id and these three has its stored value.
C14_TimeFieldsConverted ==
    [][\A p \in Procs :
         Converts(p) =>
            LET d == Coll(proc[p].coll)[Key(p)]
                r == proc'[p].ret
            IN  /\ r.t = "value"
                /\ \A f \in TimeFields :
                      IF f \in DOMAIN d
                      THEN f \in DOMAIN r.v /\ r.v[f].t = "Date"
                      ELSE f \notin DOMAIN r.v
                /\ \A f \in DOMAIN d \ (TimeFields \cup {"id"}) :
                      f \in DOMAIN r.v /\ r.v[f] = d[f]
      ]_vars

\* the step settles caller p's update call
UpdateSettles(p) ==
    /\ proc[p].op \in UpdateMethods
    /\ Steps(p)
    /\ proc'[p].pc = "return"

\* the record returned carries the requested id
ReturnsRequested(p, ret) ==
    /\ ret.t = "value"
    /\ DOMAIN ret.v # {}
    /\ ret.v["id"] = Num(proc[p].id)

GetsById(p) ==
    /\ \/ proc[p].op \in {"getTrade", "getCollection"} /\ proc[p].pc = "get"
       \/ proc[p].op = "getUser" /\ proc[p].pc = "queryFirst"
    /\ Steps(p)

\* the collection c after the step
CollAfter(c) ==
    CASE c = USERS_COLLECTION -> users'
      [] c = TRADES_COLLECTION -> trades'
      [] c = COLLECTIONS_COLLECTION -> collections'

\* C16: a get by the id of a record r that create returned gives r back,
\* field for field, while no update or delete of that id has taken effect;
\* and what create returns is the record it has just stored under a key not
\* used before.
C16_GetAfterCreate ==
    [][\A p \in Procs :
         /\ (GetsById(p) /\ Key(p) \in DOMAIN fresh[proc[p].coll])
            => proc'[p].ret = Val(fresh[proc[p].coll][Key(p)])
         /\ (proc[p].pc = "set" /\ Steps(p))
            => /\ proc'[p].ret.t = "value"
               /\ proc'[p].ret.v["id"] = Num(proc[p].id)
               /\ Key(p) \notin DOMAIN Coll(proc[p].coll)
               /\ Key(p) \in DOMAIN CollAfter(proc[p].coll)
               /\ Normalized(Key(p), CollAfter(proc[p].coll)[Key(p)]) = proc'[p].ret.v
      ]_vars

\* getTrade has returned, createdAt included, the record createTrade
\* returned for its id, which has not been updated or deleted
C16_Witness ==
    \E p \in Procs :
        /\ proc[p].op = "getTrade" /\ proc[p].pc = "return"
        /\ proc[p].ret.t = "value"
        /\ Key(p) \in DOMAIN fresh[proc[p].coll]
        /\ proc[p].ret.v = fresh[proc[p].coll][Key(p)]
        /\ proc[p].ret.v["createdAt"] = Now

\* the keys of the stored documents of caller p's collection that match its
\* where clause
Matching(p) ==
    {k \in DOMAIN Coll(proc[p].coll) :
        Field(Coll(proc[p].coll)[k], WhereField(p)) = WhereValue(p)}

\* C17: getUserTrades(u), getUserCollections(u) and getCollectionTrades(c)
\* return a sequence holding exactly the normalized records of the stored
\* documents whose userId (collectionId) is the one asked for, the empty
\* sequence when there is none; and GET /api/trades and GET /api/collections
\* answer only with records whose userId is the principal.
C17_ListsAreExact ==
    /\ [](\A p \in Procs :
            (/\ proc[p].route \in ListRoutes
             /\ proc[p].rpc = "responded"
             /\ proc[p].status = 200)
            => \A r \in Records(proc[p].sent) : Field(r, "userId") = UserId(proc[p]))
    /\ [][\A p \in Procs :
            (proc[p].pc = "queryAll" /\ Steps(p))
            => /\ proc'[p].ret.t = "list"
               /\ Len(proc'[p].ret.v) = Cardinality(Matching(p))
               /\ \A k \in Matching(p) : \E i \in DOMAIN proc'[p].ret.v :
                     proc'[p].ret.v[i] = Normalized(k, Coll(proc[p].coll)[k])
         ]_vars

-----------------------------------------------------------------------------
(* Properties of the session and of the guard.                             *)

\* the modelled routes behind ensureAuthenticated
GuardedRoutes ==
    TradeRoutes \cup CollectionRoutes \cup {"POST /api/create-subscription"}

\* the fields of an account that hold its payment references and its plan
PaymentFields == {"stripeCustomerId", "stripeSubscriptionId", "planType"}

\* the step writes a trade, a collection, one of their counters, or a
\* payment field of an account
GuardedWrite ==
    \/ trades' # trades
    \/ collections' # collections
    \/ counterDoc'.tradeId # counterDoc.tradeId
    \/ counterDoc'.collectionId # counterDoc.collectionId
    \/ \E k \in DOMAIN users \cap DOMAIN users' : \E f \in PaymentFields :
          Field(users'[k], f) # Field(users[k], f)

\* p holds a request to a guarded route that arrived on a session without
\* a user id, and the guard has not run yet
Unauthenticated(p) ==
    /\ proc[p].route \in GuardedRoutes
    /\ proc[p].rpc = "deserializeUser"
    /\ proc[p].op = "none"

\* C18: a request to a guarded route whose session is not authenticated is
\* answered 401 by the one step it takes, and that step leaves the records
\* and the counters as they are; every step that writes a trade, a
\* collection, their counters or an account's payment references or plan
\* belongs to a request whose principal is a stored account; and the userId
\* stored on a trade or collection created by a request is the request's
\* principal, whatever userId the body holds.
C18_WritesNeedPrincipal ==
    /\ [][\A p \in Procs :
            (Unauthenticated(p) /\ proc'[p] # proc[p])
            => /\ proc'[p].rpc = "responded"
               /\ proc'[p].status = 401
               /\ StoreSame
         ]_vars
    /\ [][GuardedWrite
            => \E p \in Procs :
                 /\ proc'[p] # proc[p]
                 /\ proc[p].route \in GuardedRoutes
                 /\ proc[p].user # Null
                 /\ NumToString(UserId(proc[p]).v) \in DOMAIN users
         ]_vars
    /\ [][\A p \in Procs :
            (proc[p].route \in PostRoutes /\ proc[p].pc = "set" /\ Steps(p))
            => /\ Key(p) \in DOMAIN CollAfter(proc[p].coll)
               /\ CollAfter(proc[p].coll)[Key(p)]["userId"] = UserId(proc[p])
         ]_vars

\* A request without an authenticated session to POST /api/trades has been
\* answered 401, and a trade created by another request, whose body named
\* account 1 as userId, is stored with its principal, account 2.
C18_Witness ==
    /\ \E p \in Procs :
          /\ proc[p].route = "POST /api/trades"
          /\ proc[p].rpc = "responded"
          /\ proc[p].user = Null
          /\ proc[p].status = 401
    /\ \E k \in DOMAIN trades :
          /\ trades[k]["symbol"] = Str("TSLA")
          /\ trades[k]["userId"] = Num(2)

\* the keys of the stored accounts that the credentials of p's login request
\* match: the email is the account's and the password verifies against its
\* stored hash
Verified(p) ==
    {k \in DOMAIN users :
        /\ Field(users[k], "email") = Field(proc[p].body, "email")
        /\ Field(proc[p].body, "password").t = "string"
        /\ Field(users[k], "password") = Hash(proc[p].body["password"])}

\* p's request is answered by the step
Answers(p) == proc[p].rpc # "responded" /\ proc'[p].rpc = "responded"

\* C19: a session gets a principal only by the step that answers a login
\* request of its client whose email and password match a stored account,
\* and the principal is that account's id; a login request is answered 200
\* with matching credentials and otherwise 401 with the session left
\* unauthenticated; the step that answers a logout with 200 leaves the
\* session unauthenticated, and a current-user request arriving on an
\* unauthenticated session is answered 401.
C19_SessionLifecycle ==
    /\ [][\A c \in Clients :
            (session'[c] # session[c] /\ session'[c] # Null)
            => \E p \in Procs :
                  /\ proc[p].route = "POST /api/auth/login"
                  /\ proc[p].client = c
                  /\ Answers(p)
                  /\ \E k \in Verified(p) : session'[c] = Field(users[k], "id")
         ]_vars
    /\ [][\A p \in Procs :
            (proc[p].route = "POST /api/auth/login" /\ Answers(p))
            => \/ proc'[p].status = 200 /\ Verified(p) # {}
               \/ proc'[p].status = 401 /\ session'[proc[p].client] = Null
         ]_vars
    /\ [][\A p \in Procs :
            /\ (proc[p].route = "POST /api/auth/logout" /\ Answers(p)
                  /\ proc'[p].status = 200)
               => session'[proc[p].client] = Null
            /\ (proc[p].route = "GET /api/auth/current-user" /\ Answers(p)
                  /\ proc[p].op = "none")
               => proc'[p].status = 401
         ]_vars

\* the methods that return the one record of a requested id
ById1Methods == {"getTrade", "getCollection", "updateTrade", "updateCollection"}

\* C20: a record that getTrade, getCollection, updateTrade or
\* updateCollection has returned for the requested id n has the id n,
\* whatever id field the stored document holds.
C20_IdIsRequested ==
    \A p \in Procs :
        (/\ proc[p].op \in ById1Methods
         /\ proc[p].pc = "return"
         /\ proc[p].ret.t = "value")
        => Field(proc[p].ret.v, "id") = Num(proc[p].id)

\* updateTrade(1, ...) has returned a record while the document under key
\* "1" holds an id field other than 1.
C20_Witness ==
    \E p \in Procs :
        /\ proc[p].op = "updateTrade"
        /\ proc[p].pc = "return"
        /\ proc[p].ret.t = "value"
        /\ proc[p].id = 1
        /\ NumToString(1) \in DOMAIN trades
        /\ Field(trades[NumToString(1)], "id") # Num(1)

-----------------------------------------------------------------------------
(* Properties of the counters and of the frame of the writes.              *)

CreateMethods == {"createUser", "createTrade", "createCollection"}
DeleteMethods == {"deleteTrade", "deleteCollection"}

\* the counter a create method takes its identifier from
OwnCounter(op) ==
    CASE op = "createUser" -> "userId"
      [] op = "createTrade" -> "tradeId"
      [] op = "createCollection" -> "collectionId"

\* the step leaves every document alone but the one under key in collection c
OthersSame(c, key) ==
    /\ \A d \in CollectionNames \ {c} : CollAfter(d) = Coll(d)
    /\ DOMAIN CollAfter(c) \ {key} = DOMAIN Coll(c) \ {key}
    /\ \A k \in DOMAIN Coll(c) \ {key} : CollAfter(c)[k] = Coll(c)[k]

\* C21: a step of an update or delete call addressed to identifier i of one
\* kind leaves the three counters and every document of another kind or
\* under another key as they are; the step of a create call that writes the
\* counter document adds exactly 1 to the counter of the call's kind and
\* changes no other counter and no document; and the step of a create call
\* that writes a document adds one document under a key not stored before
\* and changes no other document and no counter.
C21_WritesAreFramed ==
    [][\A p \in Procs :
         Steps(p) =>
            /\ proc[p].op \in UpdateMethods \cup DeleteMethods
               => /\ counterDoc' = counterDoc
                  /\ OthersSame(proc[p].coll, Key(p))
            /\ (proc[p].op \in CreateMethods /\ counterDoc' # counterDoc)
               => /\ counterDoc'.exists /\ counterDoc.exists
                  /\ \A n \in CounterNames :
                        counterDoc'[n] = IF n = OwnCounter(proc[p].op)
                                         THEN counterDoc[n] + 1 ELSE counterDoc[n]
                  /\ \A c \in CollectionNames : CollAfter(c) = Coll(c)
            /\ (proc[p].op \in CreateMethods /\ counterDoc' = counterDoc
                  /\ \E c \in CollectionNames : CollAfter(c) # Coll(c))
               => /\ Key(p) \notin DOMAIN Coll(proc[p].coll)
                  /\ Key(p) \in DOMAIN CollAfter(proc[p].coll)
                  /\ OthersSame(proc[p].coll, Key(p))
      ]_vars

\* A createTrade has returned the second trade while the first is stored,
\* and the trade counter stands at 3 with the other two counters at 1.
C21_Witness ==
    /\ \E p \in Procs :
          /\ proc[p].op = "createTrade"
          /\ proc[p].pc = "return"
          /\ proc[p].ret.t = "value"
          /\ proc[p].id = 2
    /\ DOMAIN trades = {NumToString(1), NumToString(2)}
    /\ counterDoc.tradeId = 3
    /\ counterDoc.userId = 1
    /\ counterDoc.collectionId = 1

\* C22: no step lowers a counter of the counter document or removes the
\* document, and the write of initializeCounters happens only while no
\* identifier has been issued.
C22_CountersNeverDecrease ==
    /\ [][counterDoc.exists
            => /\ counterDoc'.exists
               /\ \A n \in CounterNames : counterDoc'[n] >= counterDoc[n]
         ]_vars
    /\ [][\A i \in Instances :
            (initPc[i] = "set" /\ initPc'[i] = "done")
            => \A n \in CounterNames : issued[n] = <<>>
         ]_vars

\* C23: a register request whose body lacks a required field, whose email is
\* found stored, or whose username is found stored is answered 400 by that
\* step; the step that answers a register request with 400 writes nothing;
\* and a register request writes (an account document, the user counter)
\* only inside its createUser call, which no 400 answer follows.
C23_RejectedRegisterWritesNothing ==
    [][\A p \in Procs :
         (proc[p].route = "POST /api/auth/register" /\ proc'[p] # proc[p])
         => /\ ( \/ /\ Settled(p, "deserializeUser")
                    /\ ~(RequiredFields(USERS_COLLECTION) \subseteq DOMAIN proc[p].body)
                 \/ /\ Settled(p, "register:email")
                    /\ proc[p].ret.t = "value"
                 \/ /\ Settled(p, "register:username")
                    /\ proc[p].ret.t = "value" )
               => Answers(p) /\ proc'[p].status = 400
            /\ (Answers(p) /\ proc'[p].status = 400) => StoreSame
            /\ ~StoreSame => proc[p].rpc = "register:create"
            /\ proc[p].rpc = "register:create" => proc'[p].status # 400
      ]_vars

\* A register request has been answered 400 for an email already registered,
\* and the store holds the one account registered before it, with the user
\* counter at 2.
C23_Witness ==
    /\ \E p \in Procs :
          /\ proc[p].route = "POST /api/auth/register"
          /\ proc[p].rpc = "responded"
          /\ proc[p].status = 400
          /\ proc[p].sent = Str("Email already registered")
    /\ DOMAIN users = {NumToString(1)}
    /\ counterDoc.exists
    /\ counterDoc.userId = 2

\* C24: a delete call returns true or false, and it returns true for an
\* identifier only if no delete call has returned true for it before (an
\* identifier is given to one create only, so its record is created once).
C24_OneDeleteReturnsTrue ==
    [][\A p \in Procs :
         (proc[p].op \in DeleteMethods /\ Steps(p) /\ proc'[p].pc = "return")
         => /\ proc'[p].ret \in {Bool(TRUE), Bool(FALSE)}
            /\ proc'[p].ret = Bool(TRUE)
               => \A d \in deletedTrue[proc[p].coll] : d.key # Key(p)
      ]_vars

====
